---- MODULE Spec2Model ----
(***************************************************************************)
(* The local-first store (store.ts) and the cloud backup adapter           *)
(* (lib/backupAdapter.ts) of the content planner, as a state machine.      *)
(*                                                                         *)
(* Time is discrete.  One tick is DEBOUNCE_MS / Granularity; a timer is    *)
(* the number of ticks left until its callback runs (NoTimer when it is    *)
(* not pending).  A timer that is due runs before time advances and before *)
(* any other event of the same tick.  Network requests are records in      *)
(* flight: the server answers a request in one step and the client         *)
(* receives the answer in a later step, so every other event can fall in   *)
(* between.                                                                *)
(***************************************************************************)
EXTENDS Integers, Sequences, FiniteSets, TLC

(***************************************************************************)
(* Bounds of the model                                                     *)
(***************************************************************************)
Granularity == 3        \* ticks per debounce window
MaxUserActs == 2        \* budgeted actions of the user in one page lifetime
MaxPolls == 1           \* poll ticks in one page lifetime
MaxIdeas == 2           \* ideas the store holds at once
MaxInFlight == 2        \* upserts the network holds at once
MaxForeignWrites == 1   \* writes to the remote table by another device
MaxGridActs == 4        \* grid actions of the user in one page lifetime
MaxRows == 3            \* rows a grid grows to

(***************************************************************************)
(* Program constants                                                       *)
(***************************************************************************)
DEBOUNCE_MS == 2500
MAX_WAIT_MS == 10000
WATCHDOG_INTERVAL_MS == 60000
SNAPSHOT_VERSION == 3

DebounceTicks == Granularity
MaxWaitTicks == (MAX_WAIT_MS * Granularity) \div DEBOUNCE_MS
WatchdogTicks == (WATCHDOG_INTERVAL_MS * Granularity) \div DEBOUNCE_MS

NoTimer == -1
NoStamp == -1           \* a timestamp that is null

(***************************************************************************)
(* Optional values: undefined is the empty sequence.                       *)
(***************************************************************************)
None == <<>>
Some(x) == <<x>>
IsSome(o) == o /= <<>>
Get(o) == o[1]

(***************************************************************************)
(* Workspace identifiers are sequences of characters, so that trim and     *)
(* toLowerCase are computed and not assumed.                               *)
(***************************************************************************)
Ws1 == <<"w", "s", "-", "1">>
Ws2 == <<"w", "s", "-", "2">>
WorkspaceIds == {Ws1, Ws2}

LowerChar(c) ==
  CASE c = "W" -> "w"
    [] c = "S" -> "s"
    [] OTHER -> c

RECURSIVE TrimStart(_)
TrimStart(s) ==
  IF s /= <<>> /\ Head(s) = " " THEN TrimStart(Tail(s)) ELSE s

RECURSIVE TrimEnd(_)
TrimEnd(s) ==
  IF s /= <<>> /\ s[Len(s)] = " " THEN TrimEnd(SubSeq(s, 1, Len(s) - 1)) ELSE s

Trim(s) == TrimEnd(TrimStart(s))

ToLowerCase(s) == [i \in 1..Len(s) |-> LowerChar(s[i])]

normalizeWorkspaceKeyRaw(workspace) == workspace

normalizeWorkspaceKey(workspace) == ToLowerCase(Trim(workspace))

WorkspaceKeys == {normalizeWorkspaceKey(w) : w \in WorkspaceIds}

(***************************************************************************)
(* Grid helpers.  A cell id "r{row}-c{col}" is the tuple <<"r",row,"c",col>>*)
(* and an idea id "idea-{n}" is the tuple <<"idea", n>>; a cell without an *)
(* idea has ideaId = NoIdea (undefined).                                   *)
(***************************************************************************)
NoIdea == <<>>
CellId(r, c) == <<"r", r, "c", c>>
IdeaId(n) == <<"idea", n>>

initGrid1x3 ==
  [columns |-> 3,
   rows |-> 1,
   cells |-> [k \in {CellId(0, c) : c \in 0..2} |->
                [id |-> k, row |-> 0, col |-> k[4], ideaId |-> NoIdea]]]

(***************************************************************************)
(* Default state.  Timestamps (createdAt, updatedAt, movedAt) and the      *)
(* presentation fields of workspaces and bins (name, color, avatar, vibe,  *)
(* presets) are left out of the records.  Of the seven seed bins the first *)
(* of each workspace is kept (bin-1 of ws-1, bin-6 of ws-2).               *)
(***************************************************************************)
SeedWorkspaces == <<[id |-> Ws1], [id |-> Ws2]>>

SeedBin(n, ws, order) ==
  [id |-> <<"bin", n>>, workspace_id |-> ws, sort_order |-> order,
   hashtagDefaults |-> None, ideaIds |-> None]

SeedBins ==
  <<SeedBin(1, Ws1, 0), SeedBin(6, Ws2, 0)>>

EmptyHashtags == [youtube |-> <<>>, tiktok |-> <<>>, instagram |-> <<>>]

getDefaultState ==
  [version |-> SNAPSHOT_VERSION,
   workspaces |-> SeedWorkspaces,
   bins |-> SeedBins,
   ideas |-> <<>>,
   posts |-> <<>>,
   currentWorkspaceId |-> Ws1,
   done |-> <<>>,
   gridsByWorkspace |-> [w \in {Ws1, Ws2} |-> initGrid1x3]]

(***************************************************************************)
(* Values read from storage or from a remote row.  A value that is not an  *)
(* object (null, a string, a number) is a record with the field prim; an   *)
(* object is a record of its properties.  A property of an object that     *)
(* migrate reads is None when its value has not the type migrate tests for *)
(* (Array.isArray, typeof 'object', truthiness) and Some(v) otherwise; a   *)
(* property the object does not have is outside the record's domain.       *)
(***************************************************************************)
Null == [prim |-> "null"]
IsObject(x) == "prim" \notin DOMAIN x
Field(o, f) == IF f \in DOMAIN o THEN o[f] ELSE None

\* What migrate returns when it throws (a property read on null).
Threw == [threw |-> "TypeError"]
IsThrown(r) == "threw" \in DOMAIN r

\* String(v): an id that is a number n, <<"num", n>>, becomes the string
\* of its digits, <<"digits", n>>; a string is itself.
String(v) == IF v[1] = "num" THEN <<"digits", v[2]>> ELSE v

(***************************************************************************)
(* migrate                                                                 *)
(***************************************************************************)
MigrateCell(cell) ==
  [id |-> cell.id, row |-> cell.row, col |-> cell.col,
   ideaId |-> IF cell.ideaId /= NoIdea THEN String(cell.ideaId) ELSE NoIdea]

\* A grid state without cells is left as it is.
MigrateGrid(gridState) ==
  IF "cells" \notin DOMAIN gridState THEN gridState
  ELSE [columns |-> IF "columns" \in DOMAIN gridState THEN gridState.columns ELSE 3,
        rows |-> IF "rows" \in DOMAIN gridState THEN gridState.rows ELSE 1,
        cells |-> [k \in DOMAIN gridState.cells |-> MigrateCell(gridState.cells[k])]]

GridThrows(gridState) ==
  /\ "cells" \in DOMAIN gridState
  /\ \E k \in DOMAIN gridState.cells : ~IsObject(gridState.cells[k])

MigrateBin(bin) ==
  [bin EXCEPT !.hashtagDefaults = IF IsSome(bin.hashtagDefaults)
                                   THEN bin.hashtagDefaults
                                   ELSE Some(EmptyHashtags),
              !.ideaIds = IF IsSome(bin.ideaIds) THEN bin.ideaIds ELSE Some(<<>>)]

\* text = idea.text || idea.title || ''
MigrateIdea(idea) ==
  LET status == IF idea.status = "" THEN "brainstorming" ELSE idea.status
      text == IF idea.text /= "" THEN idea.text
              ELSE IF IsSome(idea.title) THEN Get(idea.title) ELSE ""
  IN [idea EXCEPT !.text = text,
                  !.status = status,
                  !.hashtags = IF status = "working" /\ ~IsSome(idea.hashtags)
                               THEN Some(EmptyHashtags)
                               ELSE idea.hashtags]

\* The grids migrate starts from: the object literal it builds has no
\* gridsByWorkspace property, so the map starts empty whatever old holds.
MigratedGridsStart(old) == <<>>

migrate(old) ==
  IF ~IsObject(old) THEN getDefaultState
  ELSE
  LET workspaces == IF IsSome(Field(old, "workspaces")) THEN Get(old.workspaces) ELSE <<>>
      oldBins == IF IsSome(Field(old, "bins")) THEN Get(old.bins) ELSE <<>>
      oldIdeas == IF IsSome(Field(old, "ideas")) THEN Get(old.ideas) ELSE <<>>
      posts == IF IsSome(Field(old, "posts")) THEN Get(old.posts) ELSE <<>>
      cur == IF IsSome(Field(old, "currentWorkspaceId"))
             THEN Get(old.currentWorkspaceId) ELSE <<>>
      ws == IF cur /= <<>> THEN cur ELSE Ws1
      done == IF IsSome(Field(old, "done")) THEN Get(old.done) ELSE <<>>
      grid == Field(old, "grid")
      start == MigratedGridsStart(old)
      withLegacy == IF IsSome(grid)
                    THEN [w \in (DOMAIN start) \cup {ws} |->
                            IF w = ws THEN Get(grid) ELSE start[w]]
                    ELSE start
      withActive == IF ws \in DOMAIN withLegacy
                    THEN withLegacy
                    ELSE [w \in (DOMAIN withLegacy) \cup {ws} |->
                            IF w = ws THEN initGrid1x3 ELSE withLegacy[w]]
      throws == \/ \E w \in DOMAIN withActive : GridThrows(withActive[w])
                \/ \E i \in 1..Len(oldBins) : ~IsObject(oldBins[i])
                \/ \E i \in 1..Len(oldIdeas) : ~IsObject(oldIdeas[i])
      bins == [i \in 1..Len(oldBins) |-> MigrateBin(oldBins[i])]
  IN IF throws THEN Threw
     ELSE [version |-> SNAPSHOT_VERSION,
           workspaces |-> IF Len(workspaces) = 0 THEN SeedWorkspaces ELSE workspaces,
           bins |-> IF Len(bins) = 0 THEN SeedBins ELSE bins,
           ideas |-> [i \in 1..Len(oldIdeas) |-> MigrateIdea(oldIdeas[i])],
           posts |-> posts,
           currentWorkspaceId |-> ws,
           done |-> done,
           gridsByWorkspace |-> [w \in DOMAIN withActive |-> MigrateGrid(withActive[w])]]

\* getDataSnapshot / the data-only projection of a store object.  The model
\* keeps no action functions in the state, so the projection copies the
\* eight data fields.
getDataSnapshot(store) ==
  [version |-> store.version,
   workspaces |-> store.workspaces,
   bins |-> store.bins,
   ideas |-> store.ideas,
   posts |-> store.posts,
   currentWorkspaceId |-> store.currentWorkspaceId,
   done |-> store.done,
   gridsByWorkspace |-> store.gridsByWorkspace]

\* JSON.stringify of an AppData and JSON.parse of the text: the object with
\* the eight properties, each of the type migrate tests for except an empty
\* current workspace id, which is falsy.
Serialized(data) ==
  [version |-> Some(data.version),
   workspaces |-> Some(data.workspaces),
   bins |-> Some(data.bins),
   ideas |-> Some(data.ideas),
   posts |-> Some(data.posts),
   currentWorkspaceId |-> Some(data.currentWorkspaceId),
   done |-> Some(data.done),
   gridsByWorkspace |-> Some(data.gridsByWorkspace)]

\* { ...getDefaultState(), ...snapshot }
Merged(snapshot) ==
  LET defaults == Serialized(getDefaultState)
  IN [f \in (DOMAIN defaults) \cup (DOMAIN snapshot) |->
        IF f \in DOMAIN snapshot THEN snapshot[f] ELSE defaults[f]]

\* importState: the state that replaces the store's, from the data column
\* of a remote row (the JSON of the snapshot that was uploaded).
ImportedState(snapshot) == migrate(Merged(Serialized(snapshot)))

\* useActiveGrid: the grid a workspace shows.
ActiveGrid(data, ws) ==
  IF ws \in DOMAIN data.gridsByWorkspace THEN data.gridsByWorkspace[ws] ELSE initGrid1x3

(***************************************************************************)
(* State                                                                   *)
(***************************************************************************)
VARIABLES
  state,                \* store.ts: the store's current state object (data fields)
  saveTimer,            \* store.ts: the 200 ms local save is pending
  localRecord,          \* localStorage['content-grid-web::state'], None when absent
  phase,                \* initBackupAdapter: "meta", "restore", "ready"; "unloaded" after unload
  storeInstance,        \* the state object initBackupAdapter was called with
  isDirty,
  lastStateHash,        \* None is the empty string
  autoSyncEnabled,
  lastLocalSaveAt,
  lastRemoteUpdatedAt,
  debounceTimer,        \* ticks left, NoTimer when null
  debounceStore,        \* the store object the debounce callback closes over
  maxWaitTimer,
  maxWaitStore,         \* the store object the max-wait callback closes over
  watchdogTimer,
  timeouts,             \* the timeouts of each kind the browser holds for the adapter
  pollTimer,            \* the 30 s interval is running
  sinceFlush,           \* Date.now() - lastFlushTime in ticks, capped
  visible,              \* document.visibilityState = 'visible'
  pushes,               \* upserts in flight, in the order they were issued
  bootOp,               \* the fetch initBackupAdapter awaits
  pollOp,               \* the fetch pollRemoteUpdates / performPull(false) awaits
  pullOp,               \* the fetch performPull(true) awaits
  safety,               \* sessionStorage: the safety copies performPull wrote
  remote,               \* the backups table: workspace key -> row, None when absent
  clock,                \* wall clock as far as timestamps are compared
  userActs,             \* actions the user has taken so far
  polls,                \* poll ticks so far
  obs                   \* observations for the properties (not program state)

adapterVars ==
  <<isDirty, lastStateHash, lastLocalSaveAt, lastRemoteUpdatedAt, debounceTimer,
    debounceStore, maxWaitTimer, maxWaitStore, watchdogTimer, timeouts, sinceFlush,
    pushes>>

pullVars == <<pullOp, safety>>

vars ==
  <<state, saveTimer, localRecord, phase, storeInstance, autoSyncEnabled, pollTimer,
    visible, bootOp, pollOp, pullVars, remote, clock, userActs, polls, obs, adapterVars>>

SinceFlushCap == MaxWaitTicks + 1

\* The adapter's module-level variables as one record, so that a handler is
\* a function from this record to the record after it.
A ==
  [isDirty |-> isDirty,
   lastStateHash |-> lastStateHash,
   lastLocalSaveAt |-> lastLocalSaveAt,
   lastRemoteUpdatedAt |-> lastRemoteUpdatedAt,
   debounceTimer |-> debounceTimer,
   debounceStore |-> debounceStore,
   maxWaitTimer |-> maxWaitTimer,
   maxWaitStore |-> maxWaitStore,
   watchdogTimer |-> watchdogTimer,
   timeouts |-> timeouts,
   sinceFlush |-> sinceFlush,
   pushes |-> pushes,
   issued |-> <<>>]     \* the upserts this handler issued: <<reason, ...>>

SetAdapter(a) ==
  /\ isDirty' = a.isDirty
  /\ lastStateHash' = a.lastStateHash
  /\ lastLocalSaveAt' = a.lastLocalSaveAt
  /\ lastRemoteUpdatedAt' = a.lastRemoteUpdatedAt
  /\ debounceTimer' = a.debounceTimer
  /\ debounceStore' = a.debounceStore
  /\ maxWaitTimer' = a.maxWaitTimer
  /\ maxWaitStore' = a.maxWaitStore
  /\ watchdogTimer' = a.watchdogTimer
  /\ timeouts' = a.timeouts
  /\ sinceFlush' = a.sinceFlush
  /\ pushes' = a.pushes

(***************************************************************************)
(* backupAdapter.ts: the synchronous handlers                              *)
(***************************************************************************)
\* The browser's timer table, by kind of callback.  setTimeout adds a
\* timeout; clearTimeout(handle) takes the one the handle names away, and is
\* called only when the handle is not null; a timeout that fires leaves the
\* table.
NoTimeouts == [debounce |-> 0, maxWait |-> 0, watchdog |-> 0]
setTimeout(a, kind) == [a EXCEPT !.timeouts[kind] = @ + 1]
clearTimeout(a, kind, handle) ==
  IF handle /= NoTimer THEN [a EXCEPT !.timeouts[kind] = @ - 1] ELSE a
TimedOut(a, kind) == [a EXCEPT !.timeouts[kind] = @ - 1]

clearTimersHandles(a) ==
  [a EXCEPT !.debounceTimer = NoTimer, !.debounceStore = None,
            !.maxWaitTimer = NoTimer, !.maxWaitStore = None,
            !.watchdogTimer = NoTimer]

clearTimers(a) ==
  LET b == clearTimeout(clearTimeout(clearTimeout(a, "debounce", a.debounceTimer),
                                     "maxWait", a.maxWaitTimer),
                        "watchdog", a.watchdogTimer)
  IN [b EXCEPT !.debounceTimer = NoTimer, !.debounceStore = None,
               !.maxWaitTimer = NoTimer, !.maxWaitStore = None,
               !.watchdogTimer = NoTimer]

startWatchdogTimerNot(a) == a

startWatchdogTimer(a) ==
  [setTimeout(clearTimeout(a, "watchdog", a.watchdogTimer), "watchdog")
     EXCEPT !.watchdogTimer = WatchdogTicks]

\* backupToCloud up to its await: the payload is built from the arguments
\* and the request leaves.  live is the store's state at this moment; it is
\* carried for the properties only.
SendUpsert(a, workspace, data, reason, live) ==
  [a EXCEPT !.pushes = Append(@, [wk |-> normalizeWorkspaceKey(workspace),
                                  data |-> data,
                                  updated_at |-> clock,
                                  live |-> getDataSnapshot(live)]),
            !.issued = Append(@, reason)]

BackupSkippedNever(a) == FALSE

\* The guard of performBackup.
BackupSkipped(a) == ~a.isDirty

performBackup(a, store, reason, live) ==
  IF BackupSkipped(a) THEN a
  ELSE startWatchdogTimer(
         SendUpsert([clearTimers(a) EXCEPT !.sinceFlush = 0],
                    store.currentWorkspaceId, getDataSnapshot(store), reason, live))

scheduleBackupEarly(a, store, live) ==
  LET d == [a EXCEPT !.isDirty = TRUE]
  IN IF d.sinceFlush >= MaxWaitTicks
     THEN performBackup(clearTimers(d), store, "max-wait", live)
     ELSE LET e == [setTimeout(clearTimeout(d, "debounce", d.debounceTimer), "debounce")
                      EXCEPT !.debounceTimer = DebounceTicks - 1,
                             !.debounceStore = Some(store)]
          IN IF e.maxWaitTimer = NoTimer
             THEN [setTimeout(e, "maxWait")
                     EXCEPT !.maxWaitTimer = MaxWaitTicks - e.sinceFlush,
                            !.maxWaitStore = Some(store)]
             ELSE e

scheduleBackup(a, store, live) ==
  LET d == [a EXCEPT !.isDirty = TRUE]
  IN IF d.sinceFlush >= MaxWaitTicks
     THEN performBackup(clearTimers(d), store, "max-wait", live)
     ELSE LET e == [setTimeout(clearTimeout(d, "debounce", d.debounceTimer), "debounce")
                      EXCEPT !.debounceTimer = DebounceTicks,
                             !.debounceStore = Some(store)]
          IN IF e.maxWaitTimer = NoTimer
             THEN [setTimeout(e, "maxWait")
                     EXCEPT !.maxWaitTimer = MaxWaitTicks - e.sinceFlush,
                            !.maxWaitStore = Some(store)]
             ELSE e

flushPendingBackup(a, reason, live) ==
  IF ~a.isDirty THEN a
  ELSE performBackup(clearTimers(a), storeInstance, reason, live)

\* The listener initBackupAdapter subscribes: currentState is the store's
\* state at the notification.
StoreListener(a, currentState) ==
  LET currentHash == Some(getDataSnapshot(currentState))
  IN IF currentHash /= a.lastStateHash
     THEN scheduleBackup([a EXCEPT !.lastStateHash = currentHash],
                         currentState, currentState)
     ELSE a

\* notifyListeners: the adapter listens once initBackupAdapter has subscribed.
Notify(a, currentState) ==
  IF phase = "ready" THEN StoreListener(a, currentState) ELSE a

(***************************************************************************)
(* Observations kept for the properties.                                   *)
(*   unsaved    a change committed since the adapter subscribed is in no   *)
(*              upsert that has completed successfully                     *)
(*   overwrote  the auto-pull imported while unsaved held                  *)
(*   gap        ticks since the last such change (capped)                  *)
(*   burst*     the burst of changes in progress or last ended: a change   *)
(*              starts a new burst when the debounce window has elapsed    *)
(*              since the previous change.  burstLen counts its changes    *)
(*              and burstN the upserts issued since it began (both up to   *)
(*              2); burstAtGap is the gap at which the last was issued;    *)
(*              burstEligible: it began less than MAX_WAIT_MS after the    *)
(*              last flush; burstForced: the max-wait callback or a flush  *)
(*              trigger ran, or an upsert had a reason of ForcedReasons    *)
(*   cont       since the last upsert was issued, changes have kept        *)
(*              arriving less than the debounce window apart               *)
(*   skipped    a direct call of setState returned at the equality guard   *)
(*   declined   the user declined the confirmation of a manual pull        *)
(***************************************************************************)
GapCap == DebounceTicks + 1
Min(x, y) == IF x <= y THEN x ELSE y

ForcedReasons == {"max-wait", "watchdog-60s", "visibilitychange", "beforeunload", "manual"}

\* kind: "change" (a user change the adapter is notified of), "import",
\* "pushok", "trigger" (a forced flush trigger or the max-wait callback ran),
\* "other".  a is the adapter record after the step.
ObsNext(kind, a, covers) ==
  LET n == Len(a.issued)
      forcedNow == kind = "trigger" \/ \E i \in 1..n : a.issued[i] \in ForcedReasons
      fresh == kind = "change" /\ obs.gap >= DebounceTicks
      newGap == IF kind = "change" THEN 0 ELSE obs.gap
  IN [obs EXCEPT
        !.unsaved = CASE kind = "change" -> TRUE
                      [] kind = "import" -> FALSE
                      [] kind = "pushok" -> IF covers THEN FALSE ELSE @
                      [] OTHER -> @,
        !.overwrote = @ \/ (kind = "import" /\ obs.unsaved),
        !.gap = newGap,
        !.changed = @ \/ kind = "change",
        !.burstLen = IF fresh THEN 1 ELSE IF kind = "change" THEN Min(@ + 1, 2) ELSE @,
        !.burstN = IF fresh THEN n ELSE Min(@ + n, 2),
        !.burstEligible = IF fresh THEN sinceFlush < MaxWaitTicks ELSE @,
        !.burstForced = IF fresh THEN forcedNow ELSE @ \/ forcedNow,
        !.burstAtGap = IF n > 0 THEN newGap ELSE IF fresh THEN -1 ELSE @,
        !.cont = IF n > 0 THEN newGap < DebounceTicks ELSE @]

\* k ticks pass.
ObsTime(k) ==
  [obs EXCEPT !.gap = Min(@ + k, GapCap),
              !.cont = @ /\ obs.gap + k < DebounceTicks]

(***************************************************************************)
(* The remote table and the snapshots another device writes.               *)
(***************************************************************************)
\* The idea addIdea builds; the working fields are undefined.
NewIdea(n, ws, text) ==
  [id |-> IdeaId(n), workspace_id |-> ws, bin_id |-> None, text |-> text,
   status |-> "brainstorming", hashtags |-> None, title |-> None,
   description |-> None, script |-> None, shotlist |-> None, thumbnail |-> None]

Put(f, k, v) == [x \in (DOMAIN f) \cup {k} |-> IF x = k THEN v ELSE f[x]]

AssignCell(grid, cellId, ideaId) ==
  [grid EXCEPT !.cells[cellId].ideaId = ideaId]

\* What another device running the same program uploads: its data snapshot,
\* here with one idea placed in the first cell of workspace ws-1.
RemoteSeed ==
  [getDefaultState EXCEPT
     !.ideas = <<NewIdea(9, Ws1, "remote")>>,
     !.gridsByWorkspace = Put(@, Ws1, AssignCell(initGrid1x3, CellId(0, 0), IdeaId(9)))]

ForeignPayloads == {RemoteSeed}

\* The other device has workspace ws-1 open.
ForeignKeys == {normalizeWorkspaceKey(Ws1)}

IdleOp == [pc |-> "idle", wk |-> <<>>]
SentOp(pc, workspace) == [pc |-> pc, wk |-> normalizeWorkspaceKey(workspace)]

\* What a select of the row of wk can resolve to: the row (or its absence,
\* PGRST116), or an error.
FetchAnswers(wk) ==
  {[kind |-> IF IsSome(remote[wk]) THEN "row" ELSE "none", row |-> remote[wk]],
   [kind |-> "error", row |-> None]}

(***************************************************************************)
(* store.ts: hydrateState at module load                                   *)
(***************************************************************************)
\* A stored text that is not JSON.
Unparsable == [prim |-> "unparsable"]

\* safeParse: JSON.parse, null when it throws.
safeParse(stored) == IF stored = Unparsable THEN Null ELSE stored

hydrateState(stored) ==
  IF ~IsSome(stored) THEN getDefaultState ELSE migrate(safeParse(Get(stored)))

hasLocalDataNever == FALSE

\* hasLocalData: the stored text is longer than 10 characters.  The text of
\* an object with the properties of an AppData is; "null" is not.
hasLocalData == IsSome(localRecord) /\ Get(localRecord) /= Null

\* The records a device can hold at page load: none, or the data this
\* program saved in an earlier session.
InitialRecords ==
  {None, Some(Serialized(getDefaultState))}

InitialRemotes ==
  {[k \in WorkspaceKeys |-> None],
   [k \in WorkspaceKeys |->
      IF k = normalizeWorkspaceKey(Ws1)
      THEN Some([data |-> RemoteSeed, updated_at |-> 0]) ELSE None]}

InitialObs ==
  [unsaved |-> FALSE, overwrote |-> FALSE, gap |-> GapCap, changed |-> FALSE,
   burstLen |-> 0, burstN |-> 0, burstEligible |-> FALSE, burstForced |-> FALSE,
   burstAtGap |-> -1, cont |-> FALSE, pollSkipped |-> FALSE,
   bootLocal |-> FALSE, bootFailed |-> FALSE, skipped |-> FALSE, declined |-> FALSE]

\* The page has loaded: store.ts has hydrated and scheduled its first save,
\* main.tsx has called initBackupAdapter(store.getState()), which runs up to
\* its first await (the select of updated_at).
Boot(records, remotes) ==
  /\ localRecord \in records
  /\ remote \in remotes
  /\ state = hydrateState(localRecord)
  /\ saveTimer = TRUE
  /\ phase = "meta"
  /\ storeInstance = state
  /\ isDirty = FALSE
  /\ lastStateHash = None
  /\ autoSyncEnabled = TRUE
  /\ lastLocalSaveAt = NoStamp
  /\ lastRemoteUpdatedAt = NoStamp
  /\ debounceTimer = NoTimer
  /\ debounceStore = None
  /\ maxWaitTimer = NoTimer
  /\ maxWaitStore = None
  /\ watchdogTimer = NoTimer
  /\ timeouts = NoTimeouts
  /\ pollTimer = FALSE
  /\ sinceFlush = SinceFlushCap
  /\ visible = TRUE
  /\ pushes = <<>>
  /\ bootOp = SentOp("sent", state.currentWorkspaceId)
  /\ pollOp = IdleOp
  /\ pullOp = IdleOp
  /\ safety = <<>>
  /\ clock = 1
  /\ userActs = 0
  /\ polls = 0
  /\ obs = [InitialObs EXCEPT !.bootLocal = IsSome(localRecord)]

Init == Boot(InitialRecords, InitialRemotes)

(***************************************************************************)
(* Guards shared by the actions                                            *)
(***************************************************************************)
TimerDue == debounceTimer = 0 \/ maxWaitTimer = 0 \/ watchdogTimer = 0
Running == phase \in {"meta", "restore", "ready"}
\* An event other than a timer callback.
Event == Running /\ ~TimerDue
\* The network holds at most MaxInFlight upserts.
Fits(a) == Len(a.pushes) <= MaxInFlight

storeVars == <<state, saveTimer, localRecord>>
envVars == <<storeInstance, autoSyncEnabled, pollTimer, visible, remote, clock>>
budgetVars == <<userActs, polls>>

(***************************************************************************)
(* store.ts: the actions of the user.  setState replaces the state object  *)
(* and emitChange notifies the listeners and schedules the local save.     *)
(* The handlers leave budgetVars to Budgeted and Free below.               *)
(***************************************************************************)
EmitChange(next) ==
  LET a == Notify(A, next)
      tracked == phase = "ready" /\ getDataSnapshot(next) /= getDataSnapshot(state)
  IN /\ Fits(a)
     /\ state' = next
     /\ saveTimer' = TRUE
     /\ SetAdapter(a)
     /\ obs' = ObsNext(IF tracked THEN "change" ELSE "other", a, FALSE)

(***************************************************************************)
(* store.setState.  The argument is a record of the properties it has; a   *)
(* property is its value v and same, which tells whether the value is the  *)
(* very array or object the state holds (a string or a number is identical *)
(* to an equal one).  The result is the next state, None when setState     *)
(* returns at the equality guard.                                          *)
(***************************************************************************)
Held(v) == [v |-> v, same |-> TRUE]
Built(v) == [v |-> v, same |-> FALSE]

DataFields ==
  {"version", "workspaces", "bins", "ideas", "posts", "currentWorkspaceId", "done",
   "gridsByWorkspace"}
PrimitiveFields == {"version", "currentWorkspaceId"}

shallowEqualNever(s, partial) == FALSE

\* shallowEqual(currentData, nextData): a[key] === b[key] for every key.
shallowEqual(s, partial) ==
  \A key \in DataFields \cap DOMAIN partial :
    IF key \in PrimitiveFields THEN partial[key].v = s[key] ELSE partial[key].same

setStateResult(s, partial) ==
  IF shallowEqual(s, partial) THEN None
  ELSE Some([key \in DOMAIN s |->
               IF key \in DOMAIN partial THEN partial[key].v ELSE s[key]])

\* `idea-${Date.now()}`: the number of the id is one more than every
\* number the store still holds in an idea, a done record or a grid cell.
IdeaNumbers(s) ==
  {s.ideas[i].id[2] : i \in 1..Len(s.ideas)}
  \cup {k[2] : k \in DOMAIN s.done}
  \cup {s.gridsByWorkspace[w].cells[c].ideaId[2] :
          <<w, c>> \in {x \in UNION {{<<w, c>> : c \in DOMAIN s.gridsByWorkspace[w].cells} :
                                        w \in DOMAIN s.gridsByWorkspace} :
                          s.gridsByWorkspace[x[1]].cells[x[2]].ideaId /= NoIdea}}

FreshIdeaNumber(s) ==
  LET N == IdeaNumbers(s) \cup {0}
  IN 1 + CHOOSE m \in N : \A x \in N : x <= m

addIdeaResult(s, text) ==
  Some([s EXCEPT
     !.ideas = Append(@, NewIdea(FreshIdeaNumber(s), s.currentWorkspaceId, text))])

(***************************************************************************)
(* store.ts: the idea actions.  Each is computed as the argument it passes *)
(* to setState, Some(next state), or None when it returns before calling   *)
(* setState.  The arrays and objects it builds are new ones, so setState   *)
(* never finds the data shallowly equal and always emits the change.       *)
(***************************************************************************)
\* ideas.find(i => i.id === id): the index of the first, 0 when none.
FindIdea(s, id) ==
  IF \E i \in 1..Len(s.ideas) : s.ideas[i].id = id
  THEN CHOOSE i \in 1..Len(s.ideas) :
         /\ s.ideas[i].id = id
         /\ \A j \in 1..(i - 1) : s.ideas[j].id /= id
  ELSE 0

\* { ...obj, ...updates }
Spread(obj, updates) ==
  [f \in (DOMAIN obj) \cup (DOMAIN updates) |->
     IF f \in DOMAIN updates THEN updates[f] ELSE obj[f]]

\* ideas.map(i => i.id === id ? { ...i, ...updates } : i)
MapIdeas(s, id, updates) ==
  [i \in 1..Len(s.ideas) |->
     IF s.ideas[i].id = id THEN Spread(s.ideas[i], updates) ELSE s.ideas[i]]

updateIdeaResult(s, id, updates) == Some([s EXCEPT !.ideas = MapIdeas(s, id, updates)])

deleteIdeaResult(s, id) ==
  Some([s EXCEPT !.ideas = SelectSeq(s.ideas, LAMBDA i : i.id /= id)])

Platforms == {"youtube", "tiktok", "instagram"}

\* The hashtags setIdeaStatus copies from the defaults of a bin.
HashtagsFrom(defaults) ==
  [p \in Platforms |-> IF p \in DOMAIN defaults THEN defaults[p] ELSE <<>>]

FindBin(s, binId) ==
  IF \E i \in 1..Len(s.bins) : s.bins[i].id = binId
  THEN CHOOSE i \in 1..Len(s.bins) :
         /\ s.bins[i].id = binId
         /\ \A j \in 1..(i - 1) : s.bins[j].id /= binId
  ELSE 0

setIdeaStatusBare(s, id, status) ==
  IF FindIdea(s, id) = 0 THEN None
  ELSE Some([s EXCEPT !.ideas = MapIdeas(s, id, [status |-> status])])

setIdeaStatusResult(s, id, status) ==
  LET n == FindIdea(s, id)
      idea == s.ideas[n]
      b == FindBin(s, Get(idea.bin_id))
      hashtags == IF b /= 0 /\ IsSome(s.bins[b].hashtagDefaults)
                  THEN HashtagsFrom(Get(s.bins[b].hashtagDefaults))
                  ELSE EmptyHashtags
      updates == IF status = "working" /\ ~IsSome(idea.hashtags) /\ IsSome(idea.bin_id)
                 THEN [status |-> status, hashtags |-> Some(hashtags)]
                 ELSE [status |-> status]
  IN IF n = 0 THEN None
     ELSE Some([s EXCEPT !.ideas = MapIdeas(s, id, updates)])

updateIdeaFieldsResult(s, id, patch) ==
  Some([s EXCEPT !.ideas = MapIdeas(s, id, patch)])

moveIdeaToBinResult(s, ideaId, binId) ==
  Some([s EXCEPT !.ideas = MapIdeas(s, ideaId, [bin_id |-> binId])])

\* The DoneRecord markIdeaPosted builds (movedAt is a timestamp).
DoneSnapshot(idea) ==
  [id |-> idea.id,
   workspaceId |-> idea.workspace_id,
   snapshot |-> [title |-> idea.title,
                 description |-> idea.description,
                 hashtags |-> idea.hashtags,
                 script |-> idea.script,
                 shotlist |-> idea.shotlist,
                 thumbnail |-> idea.thumbnail,
                 binId |-> idea.bin_id,
                 text |-> idea.text]]

markIdeaPostedAgain(s, ideaId) ==
  LET n == FindIdea(s, ideaId)
  IN IF n = 0 THEN None
     ELSE Some([s EXCEPT !.ideas = MapIdeas(s, ideaId, [status |-> "done"]),
                         !.done = Put(s.done, ideaId, DoneSnapshot(s.ideas[n]))])

markIdeaPostedResult(s, ideaId) ==
  LET n == FindIdea(s, ideaId)
  IN IF n = 0 \/ s.ideas[n].status = "done" THEN None
     ELSE Some([s EXCEPT !.ideas = MapIdeas(s, ideaId, [status |-> "done"]),
                         !.done = Put(s.done, ideaId, DoneSnapshot(s.ideas[n]))])

\* const { [ideaId]: _removed, ...restDone } = done
Omit(f, k) == [x \in (DOMAIN f) \ {k} |-> f[x]]

unpostIdeaKeepsRecord(s, ideaId) ==
  LET n == FindIdea(s, ideaId)
  IN IF n = 0 THEN None
     ELSE Some([s EXCEPT !.ideas = MapIdeas(s, ideaId, [status |-> "working"])])

unpostIdeaResult(s, ideaId) ==
  LET n == FindIdea(s, ideaId)
  IN IF n = 0 THEN None
     ELSE Some([s EXCEPT !.ideas = MapIdeas(s, ideaId, [status |-> "working"]),
                         !.done = Omit(s.done, ideaId)])

(***************************************************************************)
(* store.ts: bins and posts.  A bin keeps its id, workspace, sort order and *)
(* hashtag defaults; a post its id, workspace, idea, bin, title and        *)
(* caption.  `bin-${Date.now()}` and `post-${Date.now()}` are numbers no   *)
(* bin or post of the store has: two calls are never in one millisecond.   *)
(***************************************************************************)
BinId(n) == <<"bin", n>>
PostId(n) == <<"post", n>>

Max(S) == CHOOSE m \in S : \A x \in S : x <= m

FreshBinNumber(s) ==
  1 + Max({0} \cup {s.bins[i].id[2] : i \in 1..Len(s.bins)}
              \cup {Get(s.ideas[i].bin_id)[2] :
                      i \in {j \in 1..Len(s.ideas) : IsSome(s.ideas[j].bin_id)}}
              \cup {Get(s.posts[i].bin_id)[2] :
                      i \in {j \in 1..Len(s.posts) : IsSome(s.posts[j].bin_id)}})

FreshPostNumber(s) ==
  1 + Max({0} \cup {s.posts[i].id[2] : i \in 1..Len(s.posts)})

addBinResult(s) ==
  LET mine == {i \in 1..Len(s.bins) : s.bins[i].workspace_id = s.currentWorkspaceId}
      maxSortOrder == IF mine /= {} THEN Max({s.bins[i].sort_order : i \in mine}) ELSE -1
      newBin == [id |-> BinId(FreshBinNumber(s)),
                 workspace_id |-> s.currentWorkspaceId,
                 sort_order |-> maxSortOrder + 1,
                 hashtagDefaults |-> None,
                 ideaIds |-> None]
  IN Some([s EXCEPT !.bins = Append(@, newBin)])

deleteBinCascade(s, id) ==
  Some([s EXCEPT
     !.bins = SelectSeq(s.bins, LAMBDA b : b.id /= id),
     !.ideas = SelectSeq(s.ideas, LAMBDA i : i.bin_id /= Some(id)),
     !.posts = SelectSeq(s.posts, LAMBDA q : q.bin_id /= Some(id))])

\* bin_id: null is None, as undefined is.
deleteBinResult(s, id) ==
  Some([s EXCEPT
     !.bins = SelectSeq(s.bins, LAMBDA b : b.id /= id),
     !.ideas = [i \in 1..Len(s.ideas) |->
                  IF s.ideas[i].bin_id = Some(id)
                  THEN [s.ideas[i] EXCEPT !.bin_id = None] ELSE s.ideas[i]],
     !.posts = [i \in 1..Len(s.posts) |->
                  IF s.posts[i].bin_id = Some(id)
                  THEN [s.posts[i] EXCEPT !.bin_id = None] ELSE s.posts[i]]])

\* patch holds the platforms that are not undefined in the argument.
updateBinHashtagDefaultsResult(s, binId, patch) ==
  LET Old(bin) == IF IsSome(bin.hashtagDefaults) THEN Get(bin.hashtagDefaults) ELSE <<>>
      New(bin) == [p \in Platforms |->
                     IF p \in DOMAIN patch THEN patch[p]
                     ELSE IF p \in DOMAIN Old(bin) THEN Old(bin)[p] ELSE <<>>]
  IN Some([s EXCEPT !.bins =
             [i \in 1..Len(s.bins) |->
                IF s.bins[i].id = binId
                THEN [s.bins[i] EXCEPT !.hashtagDefaults = Some(New(s.bins[i]))]
                ELSE s.bins[i]]])

\* title: idea.title || idea.text; caption: idea.description || ''.
promoteIdeaToPostResult(s, idea_id) ==
  LET n == FindIdea(s, idea_id)
      idea == s.ideas[n]
      Or(o, d) == IF IsSome(o) /\ Get(o) /= "" THEN Get(o) ELSE d
      newPost == [id |-> PostId(FreshPostNumber(s)),
                  workspace_id |-> idea.workspace_id,
                  idea_id |-> Some(idea.id),
                  bin_id |-> idea.bin_id,
                  title |-> Or(idea.title, idea.text),
                  caption |-> Or(idea.description, "")]
  IN IF n = 0 THEN None
     ELSE Some([s EXCEPT !.posts = Append(@, newPost)])

(***************************************************************************)
(* store.ts: the grid actions, on the grid of the current workspace.       *)
(***************************************************************************)
\* gridsByWorkspace?.[ws], None when the workspace has no grid.
GridOf(s, ws) ==
  IF ws \in DOMAIN s.gridsByWorkspace THEN Some(s.gridsByWorkspace[ws]) ELSE None

\* { ...gridsByWorkspace, [ws]: grid }
WithGrid(s, grid) ==
  [s EXCEPT !.gridsByWorkspace = Put(@, s.currentWorkspaceId, grid)]

gridAssignResult(s, cellId, ideaId) ==
  LET grid == GridOf(s, s.currentWorkspaceId)
  IN IF ~IsSome(grid) THEN Some(WithGrid(s, initGrid1x3))
     ELSE IF cellId \notin DOMAIN Get(grid).cells THEN None
     ELSE Some(WithGrid(s, AssignCell(Get(grid), cellId, ideaId)))

gridMoveWithinOver(s, fromId, toId) ==
  LET grid == GridOf(s, s.currentWorkspaceId)
      cells == Get(grid).cells
  IN IF ~IsSome(grid) THEN None
     ELSE IF fromId \notin DOMAIN cells \/ toId \notin DOMAIN cells THEN None
     ELSE LET moved == AssignCell(Get(grid), toId, cells[fromId].ideaId)
          IN Some(WithGrid(s, AssignCell(moved, fromId, NoIdea)))

\* Move if the target is empty, otherwise swap.
gridMoveWithinResult(s, fromId, toId) ==
  LET grid == GridOf(s, s.currentWorkspaceId)
      cells == Get(grid).cells
  IN IF ~IsSome(grid) THEN None
     ELSE IF fromId \notin DOMAIN cells \/ toId \notin DOMAIN cells THEN None
     ELSE LET moved == AssignCell(Get(grid), toId, cells[fromId].ideaId)
          IN Some(WithGrid(s, AssignCell(moved, fromId, cells[toId].ideaId)))

gridClearResult(s, cellId) ==
  LET grid == GridOf(s, s.currentWorkspaceId)
  IN IF ~IsSome(grid) THEN None
     ELSE IF cellId \notin DOMAIN Get(grid).cells THEN None
     ELSE Some(WithGrid(s, AssignCell(Get(grid), cellId, NoIdea)))

gridResetAll(s) ==
  Some([s EXCEPT !.gridsByWorkspace = [w \in DOMAIN @ |-> initGrid1x3]])

gridResetTo1x3Result(s) == Some(WithGrid(s, initGrid1x3))

\* The cells of rows from..(to - 1), three columns each.
NewCells(from, to) ==
  [k \in {CellId(r, c) : r \in from..(to - 1), c \in 0..2} |->
     [id |-> k, row |-> k[2], col |-> k[4], ideaId |-> NoIdea]]

addGridRowsBlank(s, count) ==
  LET grid == ActiveGrid(s, s.currentWorkspaceId)
  IN Some(WithGrid(s, [grid EXCEPT !.rows = @ + count,
                                   !.cells = NewCells(0, grid.rows + count)]))

addGridRowsResult(s, count) ==
  LET found == GridOf(s, s.currentWorkspaceId)
      grid == IF IsSome(found) THEN Get(found) ELSE initGrid1x3
      newRows == grid.rows + count
      added == NewCells(grid.rows, newRows)
      cells == [k \in (DOMAIN grid.cells) \cup (DOMAIN added) |->
                  IF k \in DOMAIN added THEN added[k] ELSE grid.cells[k]]
  IN Some(WithGrid(s, [grid EXCEPT !.rows = newRows, !.cells = cells]))

\* The action runs: nothing when it returned early, setState otherwise.
Commit(result) ==
  /\ Event
  /\ IF IsSome(result)
     THEN EmitChange(Get(result))
     ELSE UNCHANGED <<state, saveTimer, adapterVars, obs>>
  /\ UNCHANGED <<localRecord, phase, envVars, bootOp, pollOp, pullVars>>

\* setState({ currentWorkspaceId: id })
setWorkspace(id) == Commit(setStateResult(state, [currentWorkspaceId |-> Built(id)]))

\* setState(partial), called directly; obs.skipped records that it returned
\* at the equality guard.
setState(partial) ==
  LET result == setStateResult(state, partial)
  IN /\ Event
     /\ IF IsSome(result)
        THEN EmitChange(Get(result))
        ELSE /\ obs' = [obs EXCEPT !.skipped = TRUE]
             /\ UNCHANGED <<state, saveTimer, adapterVars>>
     /\ UNCHANGED <<localRecord, phase, envVars, bootOp, pollOp, pullVars>>

addIdea(text) == Len(state.ideas) < MaxIdeas /\ Commit(addIdeaResult(state, text))
updateIdea(id, updates) == Commit(updateIdeaResult(state, id, updates))
deleteIdea(id) == Commit(deleteIdeaResult(state, id))
setIdeaStatus(id, status) == Commit(setIdeaStatusResult(state, id, status))
updateIdeaFields(id, patch) == Commit(updateIdeaFieldsResult(state, id, patch))
moveIdeaToBin(ideaId, binId) == Commit(moveIdeaToBinResult(state, ideaId, binId))
markIdeaPosted(ideaId) == Commit(markIdeaPostedResult(state, ideaId))
unpostIdea(ideaId) == Commit(unpostIdeaResult(state, ideaId))
addBin == Commit(addBinResult(state))
deleteBin(id) == Commit(deleteBinResult(state, id))
updateBinHashtagDefaults(binId, patch) ==
  Commit(updateBinHashtagDefaultsResult(state, binId, patch))
promoteIdeaToPost(idea_id) == Commit(promoteIdeaToPostResult(state, idea_id))
gridAssign(cellId, ideaId) == Commit(gridAssignResult(state, cellId, ideaId))
gridMoveWithin(fromId, toId) == Commit(gridMoveWithinResult(state, fromId, toId))
gridClear(cellId) == Commit(gridClearResult(state, cellId))
gridResetTo1x3 == Commit(gridResetTo1x3Result(state))
addGridRows(count) == Commit(addGridRowsResult(state, count))

\* What localStorage.setItem and JSON.stringify can do: the item is stored,
\* setItem throws (the quota is exceeded, storage is refused), or
\* JSON.stringify throws and safeStringify returns null.
StorageOutcomes == {"stored", "quota", "unserializable"}

doSaveUncaught(s, record, outcome) ==
  [record |-> IF outcome = "stored" THEN Some(Serialized(s)) ELSE record,
   thrown |-> outcome = "quota"]

\* doSave: the record in localStorage after it, and whether an exception
\* leaves it.  The try block holds the whole body.
doSaveResult(s, record, outcome) ==
  [record |-> IF outcome = "stored" THEN Some(Serialized(s)) ELSE record,
   thrown |-> FALSE]

\* The save timer of scheduleSave runs doSave.
doSaveOutcome(outcome) ==
  /\ Running /\ saveTimer
  /\ saveTimer' = FALSE
  /\ localRecord' = doSaveResult(state, localRecord, outcome).record
  /\ UNCHANGED <<state, phase, envVars, bootOp, pollOp, pullVars, budgetVars, obs, adapterVars>>

\* doSave when storage takes the item.
doSave == doSaveOutcome("stored")

(***************************************************************************)
(* initBackupAdapter                                                       *)
(***************************************************************************)
\* Steps 3 to 6: the hash of the store object passed in, the subscription,
\* the watchdog and the poll interval.
FinishInit(a) ==
  /\ SetAdapter(startWatchdogTimer(
       [a EXCEPT !.lastStateHash = Some(getDataSnapshot(storeInstance))]))
  /\ pollTimer' = autoSyncEnabled
  /\ phase' = "ready"
  /\ bootOp' = IdleOp

\* The select of updated_at resolves; with a local record steps 3 to 6
\* follow at once, without one restoreFromCloud sends its select.
BootMetaResponse ==
  /\ Event /\ phase = "meta" /\ bootOp.pc = "sent"
  /\ \E r \in FetchAnswers(bootOp.wk) :
       LET a == IF r.kind = "row"
                THEN [A EXCEPT !.lastRemoteUpdatedAt = Get(r.row).updated_at]
                ELSE A
       IN /\ IF hasLocalData
             THEN FinishInit(a)
             ELSE /\ SetAdapter(a)
                  /\ phase' = "restore"
                  /\ bootOp' = SentOp("sent", storeInstance.currentWorkspaceId)
                  /\ UNCHANGED pollTimer
          /\ obs' = [obs EXCEPT !.bootFailed = @ \/ r.kind = "error"]
  /\ UNCHANGED <<storeVars, storeInstance, autoSyncEnabled, visible, remote, clock,
                 pollOp, pullVars, budgetVars>>

\* restoreFromCloud resumes: a row is imported and the adapter marked clean.
BootRestoreResponse ==
  /\ Event /\ phase = "restore" /\ bootOp.pc = "sent"
  /\ \E r \in FetchAnswers(bootOp.wk) :
       /\ IF r.kind = "row"
          THEN /\ state' = ImportedState(Get(r.row).data)
               /\ saveTimer' = TRUE
               /\ FinishInit([A EXCEPT !.isDirty = FALSE])
          ELSE /\ FinishInit(A)
               /\ UNCHANGED <<state, saveTimer>>
       /\ obs' = [obs EXCEPT !.bootFailed = @ \/ r.kind = "error"]
  /\ UNCHANGED <<localRecord, storeInstance, autoSyncEnabled, visible, remote, clock,
                 pollOp, pullVars, budgetVars>>

(***************************************************************************)
(* Timer callbacks                                                         *)
(***************************************************************************)
\* setTimeout(() => { debounceTimer = null; performBackup(store, 'debounce') })
DebounceFires ==
  LET a == performBackup([TimedOut(A, "debounce") EXCEPT !.debounceTimer = NoTimer,
                                                         !.debounceStore = None],
                         Get(debounceStore), "debounce", state)
  IN /\ Running /\ debounceTimer = 0
     /\ Fits(a)
     /\ SetAdapter(a)
     /\ obs' = ObsNext("other", a, FALSE)
     /\ UNCHANGED <<storeVars, phase, envVars, bootOp, pollOp, pullVars, budgetVars>>

\* The max-wait callback: clears the debounce timer, then performBackup.
MaxWaitFires ==
  LET a == performBackup([clearTimeout(TimedOut(A, "maxWait"), "debounce", debounceTimer)
                            EXCEPT !.maxWaitTimer = NoTimer, !.maxWaitStore = None,
                                   !.debounceTimer = NoTimer, !.debounceStore = None],
                         Get(maxWaitStore), "max-wait", state)
  IN /\ Running /\ maxWaitTimer = 0
     /\ Fits(a)
     /\ SetAdapter(a)
     /\ obs' = ObsNext("trigger", a, FALSE)
     /\ UNCHANGED <<storeVars, phase, envVars, bootOp, pollOp, pullVars, budgetVars>>

\* The watchdog callback: if (isDirty && storeInstance) performBackup(storeInstance).
WatchdogCallback(a, live) ==
  performBackup([TimedOut(a, "watchdog") EXCEPT !.watchdogTimer = NoTimer],
                storeInstance, "watchdog-60s", live)

WatchdogFires ==
  LET a == WatchdogCallback(A, state)
  IN /\ Running /\ watchdogTimer = 0
     /\ Fits(a)
     /\ SetAdapter(a)
     /\ obs' = ObsNext("trigger", a, FALSE)
     /\ UNCHANGED <<storeVars, phase, envVars, bootOp, pollOp, pullVars, budgetVars>>

\* The timers that are pending and not yet due.
Pending == {t \in {debounceTimer, maxWaitTimer, watchdogTimer} : t > 0}
Earliest(S) == CHOOSE t \in S : \A u \in S : t <= u
After(t, k) == IF t > 0 THEN t - k ELSE t

\* k ticks pass, no timer falling due before the end of them.  The local
\* save (200 ms, then idle time) has run before a tick is over.
Advance(k) ==
  /\ Event /\ ~saveTimer
  /\ debounceTimer' = After(debounceTimer, k)
  /\ maxWaitTimer' = After(maxWaitTimer, k)
  /\ watchdogTimer' = After(watchdogTimer, k)
  /\ sinceFlush' = Min(sinceFlush + k, SinceFlushCap)
  /\ obs' = ObsTime(k)
  /\ UNCHANGED <<storeVars, phase, envVars, bootOp, pollOp, pullVars, budgetVars, isDirty,
                 lastStateHash, lastLocalSaveAt, lastRemoteUpdatedAt, debounceStore, timeouts,
                 maxWaitStore, pushes>>

\* Only the watchdog is pending and the capped clocks have reached their caps.
Idle ==
  /\ Pending = {watchdogTimer}
  /\ sinceFlush = SinceFlushCap /\ obs.gap = GapCap

\* Time advances by one tick; when Idle, to the expiry of the watchdog.
Tick == Advance(IF Idle THEN watchdogTimer ELSE 1)

\* Time advances to the expiry of the earliest pending timer.
Elapse == Advance(IF Pending = {} THEN SinceFlushCap ELSE Earliest(Pending))

(***************************************************************************)
(* Flush triggers                                                          *)
(***************************************************************************)
\* visibilitychange to hidden: handleVisibilityChange.
HideTab ==
  LET a == flushPendingBackup(A, "visibilitychange", state)
  IN /\ Event /\ visible
     /\ visible' = FALSE
     /\ IF phase = "ready"
        THEN Fits(a) /\ SetAdapter(a) /\ obs' = ObsNext("trigger", a, FALSE)
        ELSE UNCHANGED <<adapterVars, obs>>
     /\ UNCHANGED <<storeVars, phase, storeInstance, autoSyncEnabled, pollTimer, remote,
                    clock, bootOp, pollOp, pullVars>>

\* visibilitychange to visible: the handler does nothing.
ShowTab ==
  /\ Event /\ ~visible
  /\ visible' = TRUE
  /\ UNCHANGED <<storeVars, phase, storeInstance, autoSyncEnabled, pollTimer, remote,
                 clock, bootOp, pollOp, pullVars, budgetVars, obs, adapterVars>>

\* The page's memory after unload: its variables no longer exist and are
\* given fixed values, and so are the observations and budgets of the page.
\* Local storage, the requests already sent and the remote table remain.
Gone(a) ==
  [clearTimers(a) EXCEPT !.timeouts = NoTimeouts,
                         !.isDirty = FALSE, !.lastStateHash = None,
                         !.lastLocalSaveAt = NoStamp, !.lastRemoteUpdatedAt = NoStamp,
                         !.sinceFlush = SinceFlushCap]

\* beforeunload: handleBeforeUnload, after which the page is gone.
BeforeUnload ==
  LET a == IF phase = "ready" THEN flushPendingBackup(A, "beforeunload", state) ELSE A
  IN /\ Event
     /\ Fits(a)
     /\ SetAdapter(Gone(a))
     /\ obs' = InitialObs
     /\ userActs' = 0
     /\ polls' = 0
     /\ phase' = "unloaded"
     /\ state' = getDefaultState
     /\ storeInstance' = getDefaultState
     /\ saveTimer' = FALSE
     /\ visible' = FALSE
     /\ pollTimer' = FALSE
     /\ bootOp' = IdleOp
     /\ pollOp' = IdleOp
     /\ pullOp' = IdleOp
     /\ UNCHANGED <<localRecord, autoSyncEnabled, remote, clock, safety>>

\* The function initBackupAdapter returns.
ManualBackup(a, live) ==
  startWatchdogTimer(performBackup(clearTimers(a), storeInstance, "manual", live))

\* The Backup Now button calls it.
forceBackup ==
  LET a == ManualBackup(A, state)
  IN /\ Event /\ phase = "ready"
     /\ Fits(a)
     /\ SetAdapter(a)
     /\ obs' = ObsNext("trigger", a, FALSE)
     /\ UNCHANGED <<storeVars, phase, envVars, bootOp, pollOp, pullVars>>

(***************************************************************************)
(* backupToCloud after its await                                           *)
(***************************************************************************)
RemoveAt(q, i) == SubSeq(q, 1, i - 1) \o SubSeq(q, i + 1, Len(q))

\* What backupToCloud does to the adapter when its upsert has succeeded.
UpsertSucceeded(a) ==
  [a EXCEPT !.isDirty = FALSE, !.lastLocalSaveAt = clock, !.lastRemoteUpdatedAt = clock]

\* The upsert is applied to the table and the await resolves without error.
PushSucceeds(i) ==
  LET p == pushes[i]
      a == IF Running THEN UpsertSucceeded([A EXCEPT !.pushes = RemoveAt(pushes, i)])
           ELSE [A EXCEPT !.pushes = RemoveAt(pushes, i)]
  IN /\ ~TimerDue
     /\ remote' = [remote EXCEPT ![p.wk] = Some([data |-> p.data, updated_at |-> p.updated_at])]
     /\ SetAdapter(a)
     /\ obs' = IF Running THEN ObsNext("pushok", a, p.data = getDataSnapshot(state)) ELSE obs
     /\ UNCHANGED <<storeVars, phase, storeInstance, autoSyncEnabled, pollTimer, visible,
                    clock, bootOp, pollOp, pullVars, budgetVars>>

\* What backupToCloud does to the adapter when its upsert has failed (an
\* error result, or an exception that its catch logs): nothing.
UpsertFailed(a) == a

\* The await resolves with an error or throws: the upsert did not reach the
\* table.
PushFails(i) ==
  LET a == UpsertFailed([A EXCEPT !.pushes = RemoveAt(pushes, i)])
  IN /\ ~TimerDue
     /\ SetAdapter(a)
     /\ UNCHANGED <<storeVars, phase, envVars, bootOp, pollOp, pullVars, budgetVars, obs>>

(***************************************************************************)
(* pollRemoteUpdates and performPull(false)                                *)
(***************************************************************************)
\* The interval callback; the poll of the model does not overlap itself.
PollTick ==
  /\ Event /\ phase = "ready" /\ pollTimer /\ pollOp.pc = "idle"
  /\ polls < MaxPolls
  /\ polls' = polls + 1
  /\ IF autoSyncEnabled /\ visible
     THEN pollOp' = SentOp("ts-sent", storeInstance.currentWorkspaceId)
     ELSE UNCHANGED pollOp
  /\ obs' = [obs EXCEPT !.pollSkipped = FALSE]
  /\ UNCHANGED <<storeVars, phase, envVars, bootOp, pullVars, userActs, adapterVars>>

\* The remote row is newer than the last known remote timestamp.
RemoteIsNewer(remoteUpdatedAt) == remoteUpdatedAt > lastRemoteUpdatedAt

PollMayPullAlways(a) == TRUE

\* The poll pulls only when the adapter is clean.
PollMayPull(a) == ~a.isDirty

\* The select of updated_at resolves.  obs.pollSkipped records that this
\* poll found a newer row while the adapter was dirty.
PollTimestampResponse ==
  /\ Event /\ pollOp.pc = "ts-sent"
  /\ \E r \in FetchAnswers(pollOp.wk) :
       LET newer == r.kind = "row" /\ RemoteIsNewer(Get(r.row).updated_at)
           a == IF newer THEN [A EXCEPT !.lastRemoteUpdatedAt = Get(r.row).updated_at] ELSE A
       IN /\ SetAdapter(a)
          /\ pollOp' = IF newer /\ PollMayPull(a)
                       THEN SentOp("row-sent", storeInstance.currentWorkspaceId)
                       ELSE IdleOp
          /\ obs' = [obs EXCEPT !.pollSkipped = newer /\ a.isDirty]
  /\ UNCHANGED <<storeVars, phase, envVars, bootOp, pullVars, budgetVars>>

\* The select of the full row resolves: importState, then the tracking
\* variables are updated.
PollRowResponse ==
  /\ Event /\ pollOp.pc = "row-sent"
  /\ pollOp' = IdleOp
  /\ \E r \in FetchAnswers(pollOp.wk) :
       IF r.kind = "row"
       THEN LET row == Get(r.row)
                imported == ImportedState(row.data)
                notified == Notify(A, imported)
                a == [notified EXCEPT !.isDirty = FALSE,
                                      !.lastRemoteUpdatedAt = row.updated_at,
                                      !.lastStateHash = Some(getDataSnapshot(storeInstance))]
            IN /\ Fits(a)
               /\ state' = imported
               /\ saveTimer' = TRUE
               /\ SetAdapter(a)
               /\ obs' = ObsNext("import", a, FALSE)
       ELSE UNCHANGED <<state, saveTimer, adapterVars, obs>>
  /\ UNCHANGED <<localRecord, phase, envVars, bootOp, pullVars, budgetVars>>

(***************************************************************************)
(* pullLatest: performPull(true), and setAutoSync                          *)
(***************************************************************************)
PullDeclinedNever(a, askConfirm, proceed) == FALSE

\* The confirmation is asked when the adapter is dirty; proceed is the
\* user's answer.
PullDeclined(a, askConfirm, proceed) == a.isDirty /\ askConfirm /\ ~proceed

\* The safety copy performPull writes to sessionStorage when the adapter is
\* dirty: the snapshot of storeInstance under a key of the workspace.
SafetyCopy ==
  [wk |-> normalizeWorkspaceKey(storeInstance.currentWorkspaceId),
   data |-> getDataSnapshot(storeInstance)]

\* performPull(true) up to its await.  One manual pull is in flight at a
\* time.
pullLatest(proceed) ==
  /\ Event /\ pullOp.pc = "idle"
  /\ IF PullDeclined(A, TRUE, proceed)
     THEN /\ obs' = [obs EXCEPT !.declined = TRUE]
          /\ UNCHANGED pullVars
     ELSE /\ safety' = IF isDirty THEN Append(safety, SafetyCopy) ELSE safety
          /\ pullOp' = SentOp("row-sent", storeInstance.currentWorkspaceId)
          /\ UNCHANGED obs
  /\ UNCHANGED <<storeVars, phase, envVars, bootOp, pollOp, adapterVars>>

\* The select of the full row resolves for the manual pull.
PullRowResponse ==
  /\ Event /\ pullOp.pc = "row-sent"
  /\ pullOp' = IdleOp
  /\ \E r \in FetchAnswers(pullOp.wk) :
       IF r.kind = "row"
       THEN LET row == Get(r.row)
                imported == ImportedState(row.data)
                notified == Notify(A, imported)
                a == [notified EXCEPT !.isDirty = FALSE,
                                      !.lastRemoteUpdatedAt = row.updated_at,
                                      !.lastStateHash = Some(getDataSnapshot(storeInstance))]
            IN /\ Fits(a)
               /\ state' = imported
               /\ saveTimer' = TRUE
               /\ SetAdapter(a)
               /\ obs' = ObsNext("import", a, FALSE)
       ELSE UNCHANGED <<state, saveTimer, adapterVars, obs>>
  /\ UNCHANGED <<localRecord, phase, envVars, bootOp, pollOp, safety, budgetVars>>

\* setAutoSync: the preference is stored, and the interval is started (if
\* none runs) or stopped.
setAutoSync(enabled) ==
  /\ Event
  /\ autoSyncEnabled' = enabled
  /\ pollTimer' = enabled
  /\ UNCHANGED <<storeVars, phase, storeInstance, visible, remote, clock, bootOp, pollOp,
                 pullVars, obs, adapterVars>>

(***************************************************************************)
(* Another device writes the row of a workspace.                           *)
(***************************************************************************)
ForeignWrite(k, payload) ==
  /\ ~TimerDue /\ Running /\ clock < 1 + MaxForeignWrites
  /\ clock' = clock + 1
  /\ remote' = [remote EXCEPT ![k] = Some([data |-> payload, updated_at |-> clock + 1])]
  /\ UNCHANGED <<storeVars, phase, storeInstance, autoSyncEnabled, pollTimer, visible,
                 bootOp, pollOp, pullVars, budgetVars, obs, adapterVars>>

(***************************************************************************)
(* The specifications                                                      *)
(***************************************************************************)
\* An action of the user, counted against the budget of the run.
Budgeted(act) ==
  /\ userActs < MaxUserActs
  /\ userActs' = userActs + 1
  /\ UNCHANGED polls
  /\ act

Free(act) == act /\ UNCHANGED budgetVars

\* The whole program: a bounded number of user actions, polls and foreign
\* writes; time moves from one timer expiry to the next.
Next ==
  \/ \E id \in WorkspaceIds : Budgeted(setWorkspace(id))
  \/ Budgeted(addIdea("t"))
  \/ \E i \in {state.ideas[n].id : n \in 1..Len(state.ideas)} :
       Budgeted(gridAssign(CellId(0, 0), i))
  \/ Budgeted(HideTab)
  \/ ShowTab
  \/ Budgeted(forceBackup)
  \/ BeforeUnload
  \/ doSave
  \/ BootMetaResponse
  \/ BootRestoreResponse
  \/ DebounceFires
  \/ MaxWaitFires
  \/ WatchdogFires
  \/ Elapse
  \/ \E i \in 1..Len(pushes) : PushSucceeds(i)
  \/ \E i \in 1..Len(pushes) : PushFails(i)
  \/ PollTick
  \/ PollTimestampResponse
  \/ PollRowResponse
  \/ \E k \in ForeignKeys, d \in ForeignPayloads : ForeignWrite(k, d)

Spec == Init /\ [][Next]_vars

\* The push schedule in fine time: a returning device (a local record, no
\* remote row) whose user keeps switching workspace, hides and shows the tab
\* and presses Backup Now without bound; time moves tick by tick.
InitBurst ==
  /\ Init
  /\ IsSome(localRecord)
  /\ \A k \in WorkspaceKeys : ~IsSome(remote[k])

NextBurst ==
  \/ \E id \in WorkspaceIds : Free(setWorkspace(id))
  \/ BeforeUnload
  \/ doSave
  \/ BootMetaResponse
  \/ DebounceFires
  \/ MaxWaitFires
  \/ WatchdogFires
  \/ Tick
  \/ \E i \in 1..Len(pushes) : PushSucceeds(i)
  \/ \E i \in 1..Len(pushes) : PushFails(i)

SpecBurst == InitBurst /\ [][NextBurst]_vars

\* The store by itself: a returning device whose record holds two ideas and
\* whose network does not answer, so that initBackupAdapter stays at its
\* first await; the user works on the ideas.
StoredIdeas ==
  [getDefaultState EXCEPT
     !.bins[1].hashtagDefaults = Some([youtube |-> <<"a">>]),
     !.ideas = <<[NewIdea(1, Ws1, "t") EXCEPT !.status = "working",
                                               !.bin_id = Some(<<"bin", 1>>),
                                               !.title = Some("T"),
                                               !.hashtags = Some(EmptyHashtags)],
                 [NewIdea(2, Ws1, "u") EXCEPT !.bin_id = Some(<<"bin", 1>>)]>>]

InitStore ==
  Boot({Some(Serialized(StoredIdeas))}, {[k \in WorkspaceKeys |-> None]})

IdeaIds == {IdeaId(n) : n \in 1..(MaxIdeas + 1)}
IdeaStatuses == {"brainstorming", "working", "done"}
IdeaPatches == {[title |-> Some("V")], [status |-> "done"], [thumbnail |-> None]}
BinIds == {BinId(1), BinId(2)}
HashtagPatches == {[youtube |-> <<"b">>], [tiktok |-> <<"c">>, instagram |-> <<>>]}

NextStore ==
  \/ Budgeted(addIdea("t"))
  \/ \E id \in IdeaIds, u \in IdeaPatches : Budgeted(updateIdea(id, u))
  \/ \E id \in IdeaIds, u \in IdeaPatches : Budgeted(updateIdeaFields(id, u))
  \/ \E id \in IdeaIds : Budgeted(deleteIdea(id))
  \/ \E id \in IdeaIds, st \in IdeaStatuses : Budgeted(setIdeaStatus(id, st))
  \/ \E id \in IdeaIds, b \in {None, Some(<<"bin", 1>>)} : Budgeted(moveIdeaToBin(id, b))
  \/ \E id \in IdeaIds : Budgeted(markIdeaPosted(id))
  \/ \E id \in IdeaIds : Budgeted(unpostIdea(id))
  \/ \E id \in WorkspaceIds : Budgeted(setWorkspace(id))
  \/ Budgeted(addBin)
  \/ \E b \in BinIds : Budgeted(deleteBin(b))
  \/ \E b \in BinIds, patch \in HashtagPatches : Budgeted(updateBinHashtagDefaults(b, patch))
  \/ \E id \in IdeaIds : Budgeted(promoteIdeaToPost(id))
  \/ doSave

SpecStore == InitStore /\ [][NextStore]_vars

\* The grid by itself: a fresh device whose network does not answer; the
\* user assigns, moves and clears cells, adds rows, resets the grid and
\* switches workspace.  Idea 1 is dropped on the first cell and idea 2 on
\* the third; they reach other cells by gridMoveWithin.
InitGrid == Boot({None}, {[k \in WorkspaceKeys |-> None]})

GridAct(act) ==
  /\ userActs < MaxGridActs
  /\ userActs' = userActs + 1
  /\ UNCHANGED polls
  /\ act

CellIds == {CellId(r, c) : r \in 0..1, c \in {0, 2}}
GridRows(s) == ActiveGrid(s, s.currentWorkspaceId).rows

NextGrid ==
  \/ \E cellId \in CellIds : GridAct(gridAssign(cellId, NoIdea))
  \/ \E n \in 1..2 : GridAct(gridAssign(CellId(0, 2 * (n - 1)), IdeaId(n)))
  \/ \E fromId \in CellIds, toId \in CellIds : GridAct(gridMoveWithin(fromId, toId))
  \/ \E cellId \in CellIds : GridAct(gridClear(cellId))
  \/ GridAct(gridResetTo1x3)
  \/ \E count \in 1..2 : GridRows(state) + count <= MaxRows /\ GridAct(addGridRows(count))
  \/ \E id \in WorkspaceIds : GridAct(setWorkspace(id))
  \/ doSave

SpecGrid == InitGrid /\ [][NextGrid]_vars

\* Synchronisation by itself: a returning device whose workspace has a row
\* in the remote table, and whose record may spell the workspace in capitals
\* and with spaces around it.  Everything happens within one debounce
\* window.  The user changes the store, hides and shows the tab, toggles
\* auto-sync and pulls by hand; the interval polls; another device writes.
Ws1Shout == <<" ", "W", "S", "-", "1", " ">>
WorkspaceSpellings == {Ws1, Ws2, Ws1Shout}

InitSync ==
  Boot({Some(Serialized([getDefaultState EXCEPT !.currentWorkspaceId = w])) :
          w \in {Ws1, Ws1Shout}},
       {[k \in WorkspaceKeys |->
           IF k = normalizeWorkspaceKey(Ws1)
           THEN Some([data |-> RemoteSeed, updated_at |-> 0]) ELSE None]})

\* Arguments of a direct setState: the workspace, the array of ideas the
\* state holds, and a new array of the same ideas.
Partials(s) ==
  {[currentWorkspaceId |-> Built(Ws1)],
   [ideas |-> Held(s.ideas)],
   [ideas |-> Built(s.ideas), currentWorkspaceId |-> Built(s.currentWorkspaceId)]}

NextSync ==
  \/ \E id \in WorkspaceSpellings : Budgeted(setWorkspace(id))
  \/ Budgeted(addIdea("t"))
  \/ \E partial \in Partials(state) : Budgeted(setState(partial))
  \/ Budgeted(HideTab)
  \/ ShowTab
  \/ \E enabled \in BOOLEAN : Budgeted(setAutoSync(enabled))
  \/ \E proceed \in BOOLEAN : Budgeted(pullLatest(proceed))
  \/ PullRowResponse
  \/ \E outcome \in StorageOutcomes : doSaveOutcome(outcome)
  \/ BootMetaResponse
  \/ \E i \in 1..Len(pushes) : PushSucceeds(i)
  \/ \E i \in 1..Len(pushes) : PushFails(i)
  \/ PollTick
  \/ PollTimestampResponse
  \/ PollRowResponse
  \/ \E k \in ForeignKeys, d \in ForeignPayloads : ForeignWrite(k, d)

SpecSync == InitSync /\ [][NextSync]_vars

\* What storage can hold that this version of the program did not write:
\* text that is not JSON, the JSON null, and objects of older or foreign
\* shapes.  Each property migrate reads is tried with a value of another
\* type, with an empty array, with a null element and with legacy elements.
LegacyIdea ==
  [NewIdea(1, Ws1, "") EXCEPT !.status = "", !.title = Some("T")]

WorkingIdea(hashtags) ==
  [NewIdea(1, Ws1, "t") EXCEPT !.status = "working", !.hashtags = hashtags]

UntrustedIdeas ==
  {None, Some(<<>>), Some(<<Null>>), Some(<<LegacyIdea>>), Some(<<WorkingIdea(None)>>),
   Some(<<WorkingIdea(Some([youtube |-> <<>>]))>>)}

UntrustedBins ==
  {None, Some(<<>>), Some(<<Null>>), Some(<<SeedBin(1, Ws1, 0)>>),
   Some(<<[SeedBin(1, Ws1, 0) EXCEPT !.hashtagDefaults = Some(EmptyHashtags)]>>)}

LegacyCell(ideaId) == [id |-> CellId(0, 0), row |-> 0, col |-> 0, ideaId |-> ideaId]

UntrustedGrids ==
  {None,
   Some([columns |-> 3, rows |-> 1]),
   Some([rows |-> 1, cells |-> [k \in {CellId(0, 0)} |-> LegacyCell(<<"num", 7>>)]]),
   Some([columns |-> 3, rows |-> 1, cells |-> [k \in {CellId(0, 0)} |-> Null]])}

UntrustedRecords ==
  {Some(Unparsable), Some(Null)} \cup
  {Some([version |-> Some(2),
         workspaces |-> w,
         bins |-> b,
         ideas |-> i,
         posts |-> Some(<<>>),
         currentWorkspaceId |-> c,
         done |-> d,
         grid |-> g]) :
     w \in {None, Some(SeedWorkspaces)}, b \in UntrustedBins, i \in UntrustedIdeas,
     c \in {None, Some(Ws2)}, d \in {None, Some(<<>>)}, g \in UntrustedGrids}

\* The page before it is loaded: the variables of the page have the fixed
\* values BeforeUnload leaves.
InitMigrate ==
  /\ localRecord \in UntrustedRecords
  /\ remote = [k \in WorkspaceKeys |-> None]
  /\ phase = "unloaded"
  /\ state = getDefaultState
  /\ storeInstance = getDefaultState
  /\ saveTimer = FALSE
  /\ visible = FALSE
  /\ pollTimer = FALSE
  /\ autoSyncEnabled = TRUE
  /\ bootOp = IdleOp
  /\ pollOp = IdleOp
  /\ pullOp = IdleOp
  /\ safety = <<>>
  /\ clock = 1
  /\ userActs = 0
  /\ polls = 0
  /\ obs = InitialObs
  /\ isDirty = FALSE
  /\ lastStateHash = None
  /\ lastLocalSaveAt = NoStamp
  /\ lastRemoteUpdatedAt = NoStamp
  /\ debounceTimer = NoTimer
  /\ debounceStore = None
  /\ maxWaitTimer = NoTimer
  /\ maxWaitStore = None
  /\ watchdogTimer = NoTimer
  /\ timeouts = NoTimeouts
  /\ sinceFlush = SinceFlushCap
  /\ pushes = <<>>

\* The page loads: store.ts hydrates from storage and schedules its first
\* save, main.tsx calls initBackupAdapter, which runs up to its first await.
\* An exception of migrate ends the module's evaluation: the page is blank.
LoadPage ==
  LET loaded == hydrateState(localRecord)
  IN /\ phase = "unloaded"
     /\ IF IsThrown(loaded)
        THEN /\ phase' = "crashed"
             /\ UNCHANGED <<state, saveTimer, storeInstance, visible, bootOp, obs>>
        ELSE /\ phase' = "meta"
             /\ state' = loaded
             /\ saveTimer' = TRUE
             /\ storeInstance' = loaded
             /\ visible' = TRUE
             /\ bootOp' = SentOp("sent", loaded.currentWorkspaceId)
             /\ obs' = [InitialObs EXCEPT !.bootLocal = hasLocalData]
     /\ UNCHANGED <<localRecord, autoSyncEnabled, pollTimer, remote, clock, pollOp, pullVars,
                    budgetVars, adapterVars>>

NextMigrate ==
  \/ LoadPage
  \/ doSave
  \/ BeforeUnload

SpecMigrate == InitMigrate /\ [][NextMigrate]_vars

(***************************************************************************)
(* Properties                                                              *)
(***************************************************************************)
\* C1: the auto-pull (pollRemoteUpdates -> performPull(false) -> importState)
\* is never applied to a store holding a committed change that no
\* successfully completed push contains, whenever the change was committed.
AutoPullSparesUnsaved == ~obs.overwrote

\* C2: when the dirty flag is false and no push is in flight, a push having
\* completed successfully, no committed change of the store is outside every
\* successfully completed push.
CleanMeansSaved ==
  (phase = "ready" /\ ~isDirty /\ pushes = <<>> /\ lastLocalSaveAt /= NoStamp)
  => ~obs.unsaved

\* C3: every upsert carries the store's data as it is when the push
\* executes, keyed by the normalized id of the workspace current then.
PushCarriesCurrentData ==
  \A i \in 1..Len(pushes) :
    /\ pushes[i].data = pushes[i].live
    /\ pushes[i].wk = normalizeWorkspaceKey(pushes[i].live.currentWorkspaceId)

\* C4: a page loaded without a local record, whose fetches do not fail and
\* whose user has done nothing, finishes initBackupAdapter with the store
\* holding the migrated remote row of its workspace and the adapter clean,
\* whenever the local save runs.
BootRestoresRemote ==
  [][(/\ phase /= "ready" /\ phase' = "ready"
      /\ ~obs.bootLocal /\ ~obs'.bootFailed /\ userActs = 0
      /\ IsSome(remote[bootOp.wk]))
     => (/\ getDataSnapshot(state') =
              getDataSnapshot(ImportedState(Get(remote[bootOp.wk]).data))
         /\ ~isDirty')]_vars

PushEveryMaxWait ==
  [][(obs.cont /\ Len(pushes') > Len(pushes)) => sinceFlush <= MaxWaitTicks]_vars

\* C7: at most one upsert is in flight.
OnePushInFlight == Len(pushes) <= 1

\* The poll would find the row of its workspace newer than the last known
\* remote timestamp.
PollWouldPull ==
  LET k == normalizeWorkspaceKey(storeInstance.currentWorkspaceId)
  IN IsSome(remote[k]) /\ RemoteIsNewer(Get(remote[k]).updated_at)

\* C8: once the store has been changed, an upsert has succeeded and the
\* adapter has come to rest (clean, nothing in flight, nothing for a poll to
\* pull), the remote row of the current workspace holds the store's data.
RestIsInSync ==
  LET k == normalizeWorkspaceKey(state.currentWorkspaceId)
  IN (/\ phase = "ready" /\ obs.changed /\ lastLocalSaveAt /= NoStamp
      /\ ~isDirty /\ pushes = <<>>
      /\ pollOp.pc = "idle" /\ ~PollWouldPull)
     => (IsSome(remote[k]) /\ Get(remote[k]).data = getDataSnapshot(state))

\* C9: a poll whose timestamp fetch finds the remote row newer while the
\* adapter is dirty ends there: no row fetch, no import, the store as it was.
DirtyPollSkipsImport ==
  [][(/\ pollOp.pc = "ts-sent" /\ pollOp'.pc /= "ts-sent"
      /\ phase' = "ready" /\ obs'.pollSkipped)
     => (state' = state /\ pollOp'.pc = "idle")]_vars

\* A poll has found the remote row newer while the adapter was dirty.
DirtyPollSeen == phase = "ready" /\ obs.pollSkipped /\ pollOp.pc = "idle"

\* C10: importing the data-only projection exported from the store gives
\* back its ideas, its current workspace and the grid of every workspace.
ImportExportRoundTrip ==
  LET back == ImportedState(getDataSnapshot(state))
  IN /\ back.ideas = state.ideas
     /\ back.currentWorkspaceId = state.currentWorkspaceId
     /\ \A w \in WorkspaceIds : ActiveGrid(back, w) = ActiveGrid(state, w)

\* C11: while a push is in flight, its failure leaves the adapter dirty with
\* the recorded timestamps as they are (the handler touches neither the
\* store nor its caller), and its success leaves the adapter clean with one
\* new timestamp recorded as both lastLocalSaveAt and lastRemoteUpdatedAt.
PushOutcomeRecorded ==
  (phase = "ready" /\ pushes /= <<>>) =>
    LET failed == UpsertFailed(A)
        ok == UpsertSucceeded(A)
    IN /\ failed.isDirty
       /\ failed.lastLocalSaveAt = lastLocalSaveAt
       /\ failed.lastRemoteUpdatedAt = lastRemoteUpdatedAt
       /\ ~ok.isDirty
       /\ ok.lastLocalSaveAt = ok.lastRemoteUpdatedAt
       /\ ok.lastLocalSaveAt /= NoStamp

\* The adapter after each forced flush trigger, run in the current state.
ForcedFlushes ==
  {flushPendingBackup(A, "visibilitychange", state),
   flushPendingBackup(A, "beforeunload", state),
   WatchdogCallback(A, state),
   ManualBackup(A, state)}

\* C12: each forced flush trigger (tab hidden, beforeunload, the watchdog
\* callback, forceBackup) issues one upsert and leaves neither the debounce
\* nor the max-wait timer pending when the adapter is dirty, and issues no
\* upsert when it is clean.
ForcedFlushPushesIfDirty ==
  phase = "ready" =>
    \A a \in ForcedFlushes :
      IF isDirty
      THEN /\ Len(a.pushes) = Len(pushes) + 1
           /\ a.debounceTimer = NoTimer /\ a.maxWaitTimer = NoTimer
      ELSE a.pushes = pushes

\* The run had one change and the tab was hidden once: a second upsert is
\* in flight, which only a forced flush issues while the adapter is dirty,
\* and no debounce or max-wait timer is pending.
ForcedFlushSeen ==
  /\ phase = "ready" /\ ~visible /\ isDirty
  /\ userActs = 2 /\ polls = 0 /\ obs.changed
  /\ debounceTimer = NoTimer /\ maxWaitTimer = NoTimer
  /\ Len(pushes) = 2

\* C13: a page loaded with a plausible local record leaves the first await
\* of initBackupAdapter straight to its subscription: no restore is sent and
\* the store is as it was, whatever the remote table holds.
LocalRecordWinsAtBoot ==
  [][(obs.bootLocal /\ phase = "meta" /\ phase' \in {"restore", "ready"})
     => (phase' = "ready" /\ state' = state)]_vars

\* A page loaded with a local record is ready, its user and its poll have
\* done nothing, and the remote row of its workspace holds other data.
LocalBootSeen ==
  LET k == normalizeWorkspaceKey(state.currentWorkspaceId)
  IN /\ phase = "ready" /\ obs.bootLocal /\ userActs = 0 /\ polls = 0
     /\ IsSome(remote[k])
     /\ Get(remote[k]).data /= getDataSnapshot(state)

\* C18: for every idea of the store, its status is 'done' if and only if
\* done holds a record under its id.
DoneIffRecord ==
  \A i \in 1..Len(state.ideas) :
    (state.ideas[i].status = "done") <=> (state.ideas[i].id \in DOMAIN state.done)

\* C19: markIdeaPosted of an idea that is not done passes setState the
\* idea with status 'done' and a done record whose snapshot holds the idea's
\* title, description, hashtags, script, shotlist, thumbnail, bin and text;
\* of a done idea or of an unknown id it returns before setState, so nothing
\* changes and no listener is notified.
MarkPostedSnapshots ==
  \A id \in IdeaIds :
    LET n == FindIdea(state, id)
        r == markIdeaPostedResult(state, id)
    IN IF n /= 0 /\ state.ideas[n].status /= "done"
       THEN /\ IsSome(r)
            /\ Get(r).ideas[n].status = "done"
            /\ id \in DOMAIN Get(r).done
            /\ Get(r).done[id].snapshot =
                 [title |-> state.ideas[n].title,
                  description |-> state.ideas[n].description,
                  hashtags |-> state.ideas[n].hashtags,
                  script |-> state.ideas[n].script,
                  shotlist |-> state.ideas[n].shotlist,
                  thumbnail |-> state.ideas[n].thumbnail,
                  binId |-> state.ideas[n].bin_id,
                  text |-> state.ideas[n].text]
       ELSE r = None

\* An idea has been posted: it is done and its record holds its title and
\* text.
PostedSeen ==
  \E i \in 1..Len(state.ideas) :
    LET idea == state.ideas[i]
    IN /\ idea.status = "done" /\ idea.id \in DOMAIN state.done
       /\ IsSome(idea.title)
       /\ state.done[idea.id].snapshot.title = idea.title
       /\ state.done[idea.id].snapshot.text = idea.text

\* The working fields of an idea.
WorkingFields(idea) ==
  [title |-> idea.title, description |-> idea.description, hashtags |-> idea.hashtags,
   script |-> idea.script, shotlist |-> idea.shotlist, thumbnail |-> idea.thumbnail]

LocalRoundTrip ==
  LET back == hydrateState(Some(Serialized(state)))
  IN /\ ~IsThrown(back)
     /\ back.ideas = state.ideas
     /\ back.posts = state.posts
     /\ back.done = state.done
     /\ back.currentWorkspaceId = state.currentWorkspaceId
     /\ Len(back.bins) = Len(state.bins)
     /\ \A i \in 1..Len(state.bins) : back.bins[i].id = state.bins[i].id
     /\ \A w \in WorkspaceIds : ActiveGrid(back, w) = ActiveGrid(state, w)

\* The stored value as migrate receives it.
StoredValue == safeParse(Get(localRecord))

\* C15: migrate applied to its own result gives that result again.
MigrateIdempotent ==
  IsSome(localRecord) =>
    LET once == migrate(StoredValue)
    IN ~IsThrown(once) => migrate(Serialized(once)) = once

\* C16: the result of migrate is structurally valid: every bin has its
\* hashtagDefaults and ideaIds, every idea a status and, when working, a
\* hashtags object with the three platform arrays, workspaces and bins are
\* not empty, the version is the current one and no grid cell holds an
\* ideaId that is a number.
MigrateOutputValid ==
  IsSome(localRecord) =>
    LET m == migrate(StoredValue)
    IN ~IsThrown(m) =>
         /\ m.version = SNAPSHOT_VERSION
         /\ Len(m.workspaces) > 0 /\ Len(m.bins) > 0
         /\ \A i \in 1..Len(m.bins) :
              IsSome(m.bins[i].hashtagDefaults) /\ IsSome(m.bins[i].ideaIds)
         /\ \A i \in 1..Len(m.ideas) :
              /\ m.ideas[i].status /= ""
              /\ m.ideas[i].status = "working" =>
                   /\ IsSome(m.ideas[i].hashtags)
                   /\ Platforms \subseteq DOMAIN Get(m.ideas[i].hashtags)
         /\ \A w \in DOMAIN m.gridsByWorkspace :
              "cells" \in DOMAIN m.gridsByWorkspace[w] =>
                \A c \in DOMAIN m.gridsByWorkspace[w].cells :
                  LET ideaId == m.gridsByWorkspace[w].cells[c].ideaId
                  IN ideaId = NoIdea \/ ideaId[1] /= "num"

\* C17: migrate returns for every stored value, with the default in place
\* of a collection that is not an array, and an absent or unparsable record
\* loads as the default state.
MigrateNeverThrows ==
  /\ hydrateState(None) = getDefaultState
  /\ hydrateState(Some(Unparsable)) = getDefaultState
  /\ IsSome(localRecord) =>
       LET m == migrate(StoredValue)
       IN /\ ~IsThrown(m)
          /\ (IsObject(StoredValue) /\ ~IsSome(Field(StoredValue, "ideas")))
               => m.ideas = <<>>
          /\ (IsObject(StoredValue) /\ ~IsSome(Field(StoredValue, "workspaces")))
               => m.workspaces = SeedWorkspaces

\* C21: setIdeaStatus(id, 'working') leaves the hashtags of an idea that
\* has some; an idea without hashtags whose bin is in the store gets, for
\* each platform, the list of the bin's hashtagDefaults (the empty list for
\* a platform the defaults do not have), and no updateBinHashtagDefaults on
\* that bin afterwards changes the idea's hashtags.
HashtagsTakenFromBin ==
  \A n \in 1..Len(state.ideas) :
    LET idea == state.ideas[n]
        r == setIdeaStatusResult(state, idea.id, "working")
        after == Get(r).ideas[n]
        b == FindBin(state, Get(idea.bin_id))
        bin == state.bins[b]
        defaults == IF IsSome(bin.hashtagDefaults) THEN Get(bin.hashtagDefaults) ELSE <<>>
    IN /\ IsSome(r)
       /\ after.status = "working"
       /\ IsSome(idea.hashtags) => after.hashtags = idea.hashtags
       /\ (~IsSome(idea.hashtags) /\ IsSome(idea.bin_id) /\ b /= 0) =>
            /\ IsSome(after.hashtags)
            /\ DOMAIN Get(after.hashtags) = Platforms
            /\ \A p \in Platforms :
                 Get(after.hashtags)[p] = IF p \in DOMAIN defaults THEN defaults[p] ELSE <<>>
            /\ \A patch \in HashtagPatches :
                 Get(updateBinHashtagDefaultsResult(Get(r), bin.id, patch)).ideas[n].hashtags
                   = after.hashtags

\* An idea went to working with the list "a" of its bin, and the bin's list
\* has been replaced by "b" since.
HashtagsKeptSeen ==
  /\ Len(state.ideas) = 2
  /\ state.ideas[2].status = "working"
  /\ state.ideas[2].hashtags = Some([youtube |-> <<"a">>, tiktok |-> <<>>, instagram |-> <<>>])
  /\ state.bins[1].id = BinId(1)
  /\ IsSome(state.bins[1].hashtagDefaults)
  /\ Get(state.bins[1].hashtagDefaults).youtube = <<"b">>

\* C22: a bin, an idea or a post created in the current state carries the
\* current workspace, and setWorkspace leaves bins, ideas and posts as they
\* are.
CreatedInCurrentWorkspace ==
  LET W == state.currentWorkspaceId
      Newest(q) == q[Len(q)]
  IN /\ Newest(Get(addBinResult(state)).bins).workspace_id = W
     /\ Newest(Get(addIdeaResult(state, "t")).ideas).workspace_id = W
     /\ \A n \in 1..Len(state.ideas) :
          Newest(Get(promoteIdeaToPostResult(state, state.ideas[n].id)).posts).workspace_id = W
     /\ \A id \in WorkspaceIds :
          LET r == setStateResult(state, [currentWorkspaceId |-> Built(id)])
          IN IsSome(r) => /\ Get(r).bins = state.bins
                          /\ Get(r).ideas = state.ideas
                          /\ Get(r).posts = state.posts

\* C30: deleteBin(id) takes that bin out of bins and leaves the others in
\* their order; the ideas and posts are the same as before but for bin_id,
\* which is null where it was id.
DeleteBinNullsReferences ==
  \A id \in BinIds :
    LET r == Get(deleteBinResult(state, id))
        Cleared(before, after) ==
          /\ Len(after) = Len(before)
          /\ \A i \in 1..Len(before) :
               /\ after[i].bin_id = IF before[i].bin_id = Some(id) THEN None
                                    ELSE before[i].bin_id
               /\ [after[i] EXCEPT !.bin_id = before[i].bin_id] = before[i]
    IN /\ r.bins = SelectSeq(state.bins, LAMBDA b : b.id /= id)
       /\ Cleared(state.ideas, r.ideas)
       /\ Cleared(state.posts, r.posts)

\* bin-1 has been deleted: the idea and the post that were in it are still
\* there, without a bin.
DeletedBinSeen ==
  /\ \A i \in 1..Len(state.bins) : state.bins[i].id /= BinId(1)
  /\ Len(state.ideas) = 2 /\ state.ideas[1].bin_id = None /\ state.ideas[1].status = "working"
  /\ Len(state.posts) = 1
  /\ state.posts[1].idea_id = Some(IdeaId(1)) /\ state.posts[1].bin_id = None

\* C23: addGridRows(n) gives the grid of the current workspace n more rows
\* and 3 * n more cells, every cell under the key "r{row}-c{col}" of its own
\* row and column, which is its id, and the cells it had are as they were;
\* and every grid of the store has rows * 3 cells.
AddGridRowsGrows ==
  LET ws == state.currentWorkspaceId
      before == ActiveGrid(state, ws)
  IN /\ \A n \in 1..2 :
          LET after == Get(addGridRowsResult(state, n)).gridsByWorkspace[ws]
          IN /\ after.rows = before.rows + n
             /\ Cardinality(DOMAIN after.cells) = Cardinality(DOMAIN before.cells) + 3 * n
             /\ \A k \in DOMAIN after.cells :
                  /\ after.cells[k].id = k
                  /\ k = CellId(after.cells[k].row, after.cells[k].col)
             /\ \A k \in DOMAIN before.cells : after.cells[k] = before.cells[k]
     /\ \A w \in DOMAIN state.gridsByWorkspace :
          Cardinality(DOMAIN state.gridsByWorkspace[w].cells)
            = state.gridsByWorkspace[w].rows * 3

\* Two rows were added to a grid that has an idea in its first cell.
GrownGridSeen ==
  LET grid == state.gridsByWorkspace[state.currentWorkspaceId]
  IN /\ grid.rows = 3
     /\ Cardinality(DOMAIN grid.cells) = 9
     /\ grid.cells[CellId(0, 0)].ideaId = IdeaId(1)
     /\ grid.cells[CellId(2, 2)].ideaId = NoIdea

NoOpSetState ==
  [][\A partial \in Partials(state) :
       (/\ setState(partial)
        /\ \A key \in DOMAIN partial :
             IF key \in PrimitiveFields THEN partial[key].v = state[key]
             ELSE partial[key].same)
       => UNCHANGED <<state, saveTimer, adapterVars>>]_vars

\* setState returned at the equality guard while the adapter was listening:
\* no local save is pending and the adapter is clean.
NoOpSeen ==
  /\ obs.skipped /\ phase = "ready"
  /\ ~saveTimer /\ ~isDirty /\ pushes = <<>>

\* The row a spelling of a workspace identifier has to address.
RowKey(workspace) == IF workspace = Ws1Shout THEN Ws1 ELSE workspace

\* C26: every request of the adapter in flight (the boot fetch, the poll,
\* the manual pull, each upsert) has as its key the trimmed lower-case
\* identifier of the workspace it was issued for, so " WS-1 " and "ws-1"
\* address one row.
RemoteKeysNormalized ==
  /\ \A op \in {bootOp, pollOp, pullOp} :
       op.pc /= "idle" => op.wk = RowKey(storeInstance.currentWorkspaceId)
  /\ \A i \in 1..Len(pushes) : pushes[i].wk = RowKey(pushes[i].data.currentWorkspaceId)

\* A page whose workspace is spelled " WS-1 " has found the row "ws-1"
\* newer and fetches it.
SpelledKeySeen ==
  /\ storeInstance.currentWorkspaceId = Ws1Shout
  /\ pollOp.pc = "row-sent" /\ pollOp.wk = Ws1
  /\ IsSome(remote[Ws1])

\* C27: while the adapter is dirty a manual pull sends its fetch only when
\* the user has confirmed, and a declined one leaves the store's data, the
\* dirty flag, the last known remote timestamp, the requests in flight and
\* the safety copies as they are.
DeclinedPullChangesNothing ==
  [][/\ (isDirty /\ pullLatest(FALSE)) =>
          UNCHANGED <<state, isDirty, lastRemoteUpdatedAt, pullOp, pollOp, pushes, safety>>
     /\ (isDirty /\ pullOp.pc = "idle" /\ pullOp'.pc /= "idle") => pullLatest(TRUE)]_vars

\* The user declined a manual pull; the adapter is dirty and no pull is in
\* flight.
DeclinedPullSeen ==
  /\ obs.declined /\ phase = "ready" /\ isDirty
  /\ pullOp.pc = "idle" /\ safety = <<>>

\* C28: when the import of a manual pull replaces the data of a dirty
\* adapter, sessionStorage holds a safety copy whose content is the data of
\* the store as it was just before the import.
SafetyCopyHoldsOverwritten ==
  [][(/\ isDirty
      /\ pullOp.pc = "row-sent" /\ pullOp'.pc = "idle"
      /\ state' /= state)
     => \E i \in 1..Len(safety) : safety[i].data = getDataSnapshot(state)]_vars

\* C29: while the tab is hidden or auto-sync is off, polling sends no
\* request (neither the select of the timestamp nor the select of the row)
\* and its import does not replace the data of the store.
PollOnlyWhenVisibleAndEnabled ==
  [][(~visible \/ ~autoSyncEnabled) =>
       /\ pollOp' /= pollOp => pollOp'.pc = "idle"
       /\ (pollOp.pc = "row-sent" /\ pollOp'.pc = "idle") => state' = state]_vars

\* C31: a local write that fails (setItem throws, or the data cannot be
\* serialized) lets no exception out of doSave and changes nothing but the
\* save timer: the state and the adapter are as before and the stored record
\* is untouched.  After a failed write a user action that changes the state
\* still commits: the save is scheduled again and the adapter's listener
\* has run on the new state (the adapter holds its hash).
SaveFailed == ~saveTimer /\ localRecord /= Some(Serialized(state))

SaveFailureHarmless ==
  [][/\ \A outcome \in StorageOutcomes :
          ~doSaveResult(state, localRecord, outcome).thrown
     /\ (saveTimer /\ ~saveTimer') =>
          /\ state' = state
          /\ UNCHANGED adapterVars
          /\ localRecord' \in {localRecord, Some(Serialized(state))}
     /\ (SaveFailed /\ userActs' /= userActs /\ state' /= state) =>
          /\ saveTimer'
          /\ phase = "ready" =>
                /\ isDirty' = StoreListener(A, state').isDirty
                /\ lastStateHash' = Some(getDataSnapshot(state'))]_vars

\* A write failed after a change the adapter was notified of: the save
\* timer has run, the stored record is still the one of the page load, and
\* the adapter is ready and dirty with the new idea.
FailedSaveSeen ==
  /\ SaveFailed
  /\ phase = "ready" /\ isDirty
  /\ Len(state.ideas) = 1
  /\ localRecord = Some(Serialized(storeInstance))
\* C32: every request the adapter sends (the select of a poll or of a manual
\* pull, an upsert) has the normalized id of the workspace that is current
\* when it is sent as its key, and a setWorkspace that changes the key
\* leaves the adapter without a last known remote timestamp and clean.
RequestsFollowWorkspace ==
  [][LET key == normalizeWorkspaceKey(state'.currentWorkspaceId)
     IN /\ (pollOp.pc = "idle" /\ pollOp'.pc /= "idle") => pollOp'.wk = key
        /\ (pullOp.pc = "idle" /\ pullOp'.pc /= "idle") => pullOp'.wk = key
        /\ (Len(pushes') > Len(pushes)) => pushes'[Len(pushes')].wk = key
        /\ (phase = "ready" /\ key /= normalizeWorkspaceKey(state.currentWorkspaceId)) =>
             lastRemoteUpdatedAt' = NoStamp /\ ~isDirty']_vars
\* C33: once the adapter is initialized, whenever it is dirty a debounce, a
\* max-wait or a watchdog timer is pending, and every step that issues an
\* upsert leaves the watchdog armed for its full interval.
NeverStuckDirty ==
  [][/\ (phase' = "ready" /\ isDirty') =>
          (debounceTimer' /= NoTimer \/ maxWaitTimer' /= NoTimer \/ watchdogTimer' /= NoTimer)
     /\ (phase' = "ready" /\ Len(pushes') > Len(pushes)) =>
          watchdogTimer' = WatchdogTicks]_vars

\* An upsert has failed and the debounce and max-wait timers are gone: the
\* adapter is dirty with nothing in flight and only the watchdog pending.
DirtyUnderWatchdogSeen ==
  /\ phase = "ready" /\ isDirty /\ pushes = <<>>
  /\ debounceTimer = NoTimer /\ maxWaitTimer = NoTimer
  /\ watchdogTimer /= NoTimer /\ watchdogTimer < WatchdogTicks
\* C34: the browser holds at most one debounce, one max-wait and one
\* watchdog timeout for the adapter, and the one it holds is the one the
\* adapter's handle names: a timer is never armed while an earlier one of
\* its kind is still scheduled.
OneTimerOfEachKind ==
  /\ timeouts.debounce = (IF debounceTimer /= NoTimer THEN 1 ELSE 0)
  /\ timeouts.maxWait = (IF maxWaitTimer /= NoTimer THEN 1 ELSE 0)
  /\ timeouts.watchdog = (IF watchdogTimer /= NoTimer THEN 1 ELSE 0)

\* The debounce timer has just been armed again by the second change of a
\* burst, with the max-wait and the watchdog timers pending.
RearmedSeen ==
  /\ phase = "ready" /\ obs.burstLen = 2
  /\ debounceTimer = DebounceTicks
  /\ maxWaitTimer /= NoTimer /\ maxWaitTimer < MaxWaitTicks
  /\ watchdogTimer /= NoTimer /\ watchdogTimer < WatchdogTicks
  /\ timeouts = [debounce |-> 1, maxWait |-> 1, watchdog |-> 1]
\* C35: the status of every idea is 'brainstorming', 'working' or 'done',
\* and updateIdea, updateIdeaFields, moveIdeaToBin, deleteBin and the grid
\* actions, called in any state the store reaches, leave the status of
\* every idea as it is.
Statuses(s) == [i \in 1..Len(s.ideas) |-> s.ideas[i].status]

KeepsStatuses(result) == IsSome(result) => Statuses(Get(result)) = Statuses(state)

StatusOnlyByStatusActions ==
  /\ \A i \in 1..Len(state.ideas) : state.ideas[i].status \in IdeaStatuses
  /\ \A id \in IdeaIds :
       /\ \A u \in IdeaPatches :
            /\ KeepsStatuses(updateIdeaResult(state, id, u))
            /\ KeepsStatuses(updateIdeaFieldsResult(state, id, u))
       /\ \A b \in {None, Some(BinId(1))} : KeepsStatuses(moveIdeaToBinResult(state, id, b))
       /\ \A c \in CellIds : KeepsStatuses(gridAssignResult(state, c, id))
  /\ \A b \in BinIds : KeepsStatuses(deleteBinResult(state, b))
  /\ \A c \in CellIds :
       /\ KeepsStatuses(gridClearResult(state, c))
       /\ \A d \in CellIds : KeepsStatuses(gridMoveWithinResult(state, c, d))
  /\ KeepsStatuses(gridResetTo1x3Result(state))
  /\ KeepsStatuses(addGridRowsResult(state, 1))
\* C36: a step that imports remote data (the restore at boot, the row of a
\* poll, the row of a manual pull) issues no upsert and leaves the adapter
\* clean.
ImportNeverPushes ==
  [][(/\ \/ phase = "restore" /\ phase' = "ready"
         \/ pollOp.pc = "row-sent" /\ pollOp'.pc = "idle"
         \/ pullOp.pc = "row-sent" /\ pullOp'.pc = "idle"
      /\ getDataSnapshot(state') /= getDataSnapshot(state)) =>
        (Len(pushes') <= Len(pushes) /\ ~isDirty')]_vars
\* C37: the step that ends initBackupAdapter after restoreFromCloud keeps
\* every idea the store holds when the fetch of the restore resolves, so an
\* idea the user added while the fetch was in flight is still in the store.
BootRestoreKeepsEdits ==
  [][(phase = "restore" /\ phase' = "ready") =>
       \A i \in 1..Len(state.ideas) :
         \E j \in 1..Len(state'.ideas) : state'.ideas[j] = state.ideas[i]]_vars
\* C38: the automatic pull imports into the store only while auto-sync is
\* enabled: no step in which the row of a poll is imported is taken with
\* auto-sync switched off.
NoAutoImportWhenDisabled ==
  [][(pollOp.pc = "row-sent" /\ pollOp'.pc = "idle" /\ state' /= state) =>
       autoSyncEnabled]_vars
\* C39: gridMoveWithin(from, to) on two cells of the current workspace's
\* grid puts the idea of from into to and what to held into from (nothing
\* when to was empty): every other cell, and the id, row and column of the
\* two, are as before, each idea is in as many cells as before, and the rest
\* of the state is untouched.  With a cell id the grid does not have, the
\* call returns before setState.
MoveOrSwap ==
  LET ws == state.currentWorkspaceId
      old == state.gridsByWorkspace[ws].cells
  IN \A c \in CellIds, d \in CellIds :
       LET r == gridMoveWithinResult(state, c, d)
       IN IF c \notin DOMAIN old \/ d \notin DOMAIN old
          THEN r = None
          ELSE /\ IsSome(r)
               /\ LET new == Get(r).gridsByWorkspace[ws].cells
                  IN /\ DOMAIN new = DOMAIN old
                     /\ \A k \in (DOMAIN old) \ {c, d} : new[k] = old[k]
                     /\ new[d] = [old[d] EXCEPT !.ideaId = old[c].ideaId]
                     /\ new[c] = [old[c] EXCEPT !.ideaId = old[d].ideaId]
                     /\ \A i \in {IdeaId(1), IdeaId(2)} :
                          Cardinality({k \in DOMAIN new : new[k].ideaId = i})
                            = Cardinality({k \in DOMAIN old : old[k].ideaId = i})
               /\ Get(r) = [state EXCEPT !.gridsByWorkspace[ws].cells =
                                          Get(r).gridsByWorkspace[ws].cells]

\* Two ideas have changed places: in a grid of one row, where ideas are
\* dropped on their own cells only, idea 2 is in the first cell and idea 1
\* in the third.
SwappedSeen ==
  LET grid == state.gridsByWorkspace[state.currentWorkspaceId]
  IN /\ grid.rows = 1
     /\ grid.cells[CellId(0, 0)].ideaId = IdeaId(2)
     /\ grid.cells[CellId(0, 2)].ideaId = IdeaId(1)
====
